---- MODULE Spec2Model ----
(***************************************************************************)
(* A model of the vertex-batching engine of src/src/rlgl.c (the OpenGL 3.3 *)
(* / ES2 code paths): the three primitive buffers, the draw-call ledger,   *)
(* the deferred staging buffer, the matrix stack and the flush.            *)
(*                                                                         *)
(* Every C function is a pure operator from a state record to a state      *)
(* record, so that a function calling another (rlEnd -> rlVertex3f) is the *)
(* composition of the two; one action per public function applies it to    *)
(* the module's variables.                                                 *)
(*                                                                         *)
(* Abstractions                                                            *)
(*  - a position (3 floats), a colour (4 bytes) and a texcoord (2 floats)  *)
(*    are one token each; the code always stores the components of one     *)
(*    item together. A position is the natural x + PosMod * z, x a         *)
(*    coordinate below PosMod in the plane and z a number of depth steps;  *)
(*  - a matrix is a translation along one axis of the plane (a natural     *)
(*    modulo PosMod);                                                      *)
(*  - currentDepth is the number k of depth steps: the float is            *)
(*    -1.0f + k increments of 1.0f/20000.0f;                               *)
(*  - every array holds its live items only, the slots below its counter  *)
(*    (draws below drawsCounter, colors below cCounter, stack below        *)
(*    stackCounter, ...): the code stores into a slot before it reads it,  *)
(*    so what an earlier batch left behind a counter is dead; the contents *)
(*    of the uploads are not recorded, only their sizes;                   *)
(*  - TraceLog(ERROR, ...) ends the process (exit(1)): proc = "exited";    *)
(*  - a store past the end of a malloc'ed array is undefined behaviour:    *)
(*    it either faults (proc = "crashed") or lands in the memory behind    *)
(*    the block (proc = "corrupted", the state shows the store); the array *)
(*    and the index are recorded in memFault and the process is followed   *)
(*    no further. A read before the start of an array yields an arbitrary  *)
(*    value.                                                               *)
(***************************************************************************)
EXTENDS Integers, Sequences, FiniteSets, TLC

VARIABLES
    proc,               \* "running" | "exited" (exit(1) in TraceLog) |
                        \* "crashed" | "corrupted" (a store past an array)
    batch,              \* the build's MAX_LINES_BATCH, MAX_TRIANGLES_BATCH, MAX_QUADS_BATCH
    currentDrawMode,
    lines, triangles, quads,
    indices,            \* quads.indices, the element buffer of the quads
    draws, drawsCounter,
    currentDepth,
    tempBuffer, tempBufferCount, useTempBuffer,
    stack, stackCounter,
    modelview, projection, currentMatrix, currentMatrixMode,
    currentShader, blendMode,
    memFault,           \* arrays written past their end
    errLog,             \* messages logged at ERROR level
    glCalls,            \* the OpenGL commands issued by the last call
    lastOp,             \* the last public function called
    lastArg,            \* its argument, for rlEnableTexture, SetBlendMode,
                        \* SetCustomShader and LoadShader
    lastRet,            \* the value it returned, 0 for a void function
    scen                \* the client's position in the three-quad scenario

vars == << proc, batch, currentDrawMode, lines, triangles, quads, indices, draws,
           drawsCounter, currentDepth, tempBuffer, tempBufferCount,
           useTempBuffer, stack, stackCounter, modelview, projection,
           currentMatrix, currentMatrixMode, currentShader, blendMode,
           memFault, errLog, glCalls, lastOp, lastArg, lastRet, scen >>

----------------------------------------------------------------------------
(* Program constants, scaled down, and the bounds of the model.            *)

\* #define MATRIX_STACK_SIZE 16, scaled down
MATRIX_STACK_SIZE == 3
\* #define MAX_DRAWS_BY_TEXTURE 256, scaled down
MAX_DRAWS_BY_TEXTURE == 3
\* #define TEMP_VERTEX_BUFFER_SIZE 4096, scaled down
TEMP_VERTEX_BUFFER_SIZE == 5

\* the values of an element of quads.indices: unsigned short in the ES2
\* build, the narrower of the two element types
IndexRange == 65536

\* texture handles are 0 .. MaxTextureId
MaxTextureId == 1
\* positions and matrices are naturals modulo PosMod
PosMod == 2

\* the texture handle rlglLoadTexture returned for the 1x1 white texture
whiteTexture == 1
\* the program handle of the default shader
defaultShaderId == 1

RL_LINES == "RL_LINES"
RL_TRIANGLES == "RL_TRIANGLES"
RL_QUADS == "RL_QUADS"
RL_MODELVIEW == "RL_MODELVIEW"
RL_PROJECTION == "RL_PROJECTION"

Topologies == {RL_LINES, RL_TRIANGLES, RL_QUADS}
TextureIds == 0..MaxTextureId
Positions == 0..(PosMod - 1)
\* the colours and the texcoords a client submits; "zero" is (0.0f, 0.0f)
Colours == {"red", "blue"}
TexCoords == {"zero", "uv"}

\* the outcomes of undefined behaviour in one call: whether a store past the
\* end of an array lands, and the value read before the start of an array
NDChoices == [lands : BOOLEAN, garbage : Colours \cup {"junk"}]

----------------------------------------------------------------------------
(* raymath (not part of rlgl.c): the linear-algebra service.               *)

\* the position with the coordinate x and the depth z, and its two parts
Pos(x, z) == x + PosMod * z
XOf(p) == p % PosMod
ZOf(p) == p \div PosMod

MatrixIdentity == 0
MatrixMultiply(a, b) == (a + b) % PosMod
VectorTransform(p, m) == Pos((XOf(p) + m) % PosMod, ZOf(p))

----------------------------------------------------------------------------
(* Helpers.                                                                *)

VerticesPer(mode) ==
    CASE mode = RL_LINES -> 2
      [] mode = RL_TRIANGLES -> 3
      [] mode = RL_QUADS -> 4

MAX_LINES_BATCH(s) == s.batch[RL_LINES]
MAX_TRIANGLES_BATCH(s) == s.batch[RL_TRIANGLES]
MAX_QUADS_BATCH(s) == s.batch[RL_QUADS]

\* the number of vertices the arrays of a buffer were allocated for
Capacity(b, mode) == VerticesPer(mode) * b[mode]

Running(s) == s.proc = "running"

\* an array with no live item
NoItems == [i \in {} |-> 0]

\* a[i] = v
Store(a, i, v) == [j \in (DOMAIN a) \cup {i} |-> IF j = i THEN v ELSE a[j]]

\* static void TraceLog(int msgType, const char *text, ...)
TraceLog(s, msgType, text) ==
    [s EXCEPT !.errLog = IF msgType = "ERROR" THEN Append(@, text) ELSE @,
              !.proc = IF msgType = "ERROR" THEN "exited" ELSE @]

\* a store at index i of an array of n items: within the array nothing is
\* recorded; past its end the store lands behind the block or faults
Overrun(s, name, i, n, nd) ==
    IF i < n THEN s
    ELSE [s EXCEPT !.memFault = @ \cup {<<name, i>>},
                   !.proc = IF nd.lands THEN "corrupted" ELSE "crashed"]

\* the store did not fault
Stored(s) == s.proc # "crashed"

\* the buffer currentDrawMode selects, as a field name of the state
BufferOf(mode) ==
    CASE mode = RL_LINES -> "lines"
      [] mode = RL_TRIANGLES -> "triangles"
      [] mode = RL_QUADS -> "quads"

ColorsOf(mode) ==
    CASE mode = RL_LINES -> "lines.colors"
      [] mode = RL_TRIANGLES -> "triangles.colors"
      [] mode = RL_QUADS -> "quads.colors"

----------------------------------------------------------------------------
(* Matrix operations.                                                      *)

\* void rlMatrixMode(int mode)
rlMatrixMode(s, mode) ==
    [s EXCEPT !.currentMatrix = IF mode = RL_PROJECTION THEN "projection"
                                ELSE IF mode = RL_MODELVIEW THEN "modelview"
                                ELSE @,
              !.currentMatrixMode = mode]

\* *currentMatrix = m
SetCurrentMatrix(s, m) ==
    IF s.currentMatrix = "projection" THEN [s EXCEPT !.projection = m]
    ELSE [s EXCEPT !.modelview = m]

\* *currentMatrix
CurrentMatrix(s) ==
    IF s.currentMatrix = "projection" THEN s.projection ELSE s.modelview

\* void rlLoadIdentity(void)
rlLoadIdentity(s) == SetCurrentMatrix(s, MatrixIdentity)

\* rlPushMatrix without the test of stackCounter: a push is carried out
\* whatever the stack holds
rlPushMatrix_unchecked(s) ==
    LET s2 == [rlLoadIdentity([s EXCEPT
                  !.stack = Store(@, s.stackCounter, CurrentMatrix(s))])
                  EXCEPT !.stackCounter = @ + 1]
    IN  IF s2.currentMatrixMode = RL_MODELVIEW
        THEN [s2 EXCEPT !.useTempBuffer = TRUE]
        ELSE s2

\* rlPushMatrix without the test of currentMatrixMode: every push sets
\* useTempBuffer
rlPushMatrix_anyMode(s) ==
    LET s1 == IF s.stackCounter = MATRIX_STACK_SIZE - 1
              THEN TraceLog(s, "ERROR", "Stack Buffer Overflow")
              ELSE s
        s2 == [rlLoadIdentity([s1 EXCEPT
                  !.stack = Store(@, s.stackCounter, CurrentMatrix(s))])
                  EXCEPT !.stackCounter = @ + 1]
    IN  IF ~Running(s1) THEN s1
        ELSE [s2 EXCEPT !.useTempBuffer = TRUE]

\* void rlPushMatrix(void)
rlPushMatrix(s) ==
    LET s1 == IF s.stackCounter = MATRIX_STACK_SIZE - 1
              THEN TraceLog(s, "ERROR", "Stack Buffer Overflow")
              ELSE s
        s2 == [rlLoadIdentity([s1 EXCEPT
                  !.stack = Store(@, s.stackCounter, CurrentMatrix(s))])
                  EXCEPT !.stackCounter = @ + 1]
    IN  IF ~Running(s1) THEN s1
        ELSE IF s2.currentMatrixMode = RL_MODELVIEW
             THEN [s2 EXCEPT !.useTempBuffer = TRUE]
             ELSE s2

\* rlPopMatrix without the test of stackCounter: on an empty stack the
\* current matrix is replaced and the counter goes below 0
rlPopMatrix_unguarded(s) ==
    [SetCurrentMatrix(s, IF s.stackCounter > 0
                         THEN s.stack[s.stackCounter - 1]
                         ELSE MatrixIdentity)
        EXCEPT !.stackCounter = @ - 1,
               !.stack = [i \in 0..(s.stackCounter - 2) |-> @[i]]]

\* void rlPopMatrix(void)
rlPopMatrix(s) ==
    IF s.stackCounter > 0
    THEN [SetCurrentMatrix(s, s.stack[s.stackCounter - 1])
             EXCEPT !.stackCounter = @ - 1,
                    !.stack = [i \in 0..(s.stackCounter - 2) |-> @[i]]]
    ELSE s

\* void rlTranslatef(float x, float y, float z)
rlTranslatef(s, x) ==
    SetCurrentMatrix(s, MatrixMultiply(CurrentMatrix(s), x))

----------------------------------------------------------------------------
(* Vertex level operations.                                                *)

\* void rlBegin(int mode)
rlBegin(s, mode) == [s EXCEPT !.currentDrawMode = mode]

\* the count of a quad vertex going to the first entry of the ledger
CountQuadVertex_first(s) ==
    [s EXCEPT !.draws[0].vertexCount = @ + 1]

\* draws[drawsCounter - 1].vertexCount++
CountQuadVertex(s) ==
    [s EXCEPT !.draws[s.drawsCounter - 1].vertexCount = @ + 1]

\* the switch of rlVertex3f with <= in its three capacity tests: a full
\* buffer takes one primitive more
StoreVertex_inclusive(s, p) ==
    CASE s.currentDrawMode = RL_LINES ->
            IF s.lines.vCounter \div 2 <= MAX_LINES_BATCH(s)
            THEN [s EXCEPT !.lines.vertices = Store(@, s.lines.vCounter, p),
                           !.lines.vCounter = @ + 1]
            ELSE TraceLog(s, "ERROR", "MAX_LINES_BATCH overflow")
      [] s.currentDrawMode = RL_TRIANGLES ->
            IF s.triangles.vCounter \div 3 <= MAX_TRIANGLES_BATCH(s)
            THEN [s EXCEPT !.triangles.vertices = Store(@, s.triangles.vCounter, p),
                           !.triangles.vCounter = @ + 1]
            ELSE TraceLog(s, "ERROR", "MAX_TRIANGLES_BATCH overflow")
      [] s.currentDrawMode = RL_QUADS ->
            IF s.quads.vCounter \div 4 <= MAX_QUADS_BATCH(s)
            THEN CountQuadVertex(
                   [s EXCEPT !.quads.vertices = Store(@, s.quads.vCounter, p),
                             !.quads.vCounter = @ + 1])
            ELSE TraceLog(s, "ERROR", "MAX_QUADS_BATCH overflow")

\* the switch of rlVertex3f: the store into the buffer currentDrawMode
\* selects, or the overflow error
StoreVertex(s, p) ==
    CASE s.currentDrawMode = RL_LINES ->
            IF s.lines.vCounter \div 2 < MAX_LINES_BATCH(s)
            THEN [s EXCEPT !.lines.vertices = Store(@, s.lines.vCounter, p),
                           !.lines.vCounter = @ + 1]
            ELSE TraceLog(s, "ERROR", "MAX_LINES_BATCH overflow")
      [] s.currentDrawMode = RL_TRIANGLES ->
            IF s.triangles.vCounter \div 3 < MAX_TRIANGLES_BATCH(s)
            THEN [s EXCEPT !.triangles.vertices = Store(@, s.triangles.vCounter, p),
                           !.triangles.vCounter = @ + 1]
            ELSE TraceLog(s, "ERROR", "MAX_TRIANGLES_BATCH overflow")
      [] s.currentDrawMode = RL_QUADS ->
            IF s.quads.vCounter \div 4 < MAX_QUADS_BATCH(s)
            THEN CountQuadVertex(
                   [s EXCEPT !.quads.vertices = Store(@, s.quads.vCounter, p),
                             !.quads.vCounter = @ + 1])
            ELSE TraceLog(s, "ERROR", "MAX_QUADS_BATCH overflow")

\* void rlVertex3f(float x, float y, float z)
rlVertex3f(s, nd, p) ==
    IF s.useTempBuffer
    THEN LET s1 == Overrun(s, "tempBuffer", s.tempBufferCount,
                           TEMP_VERTEX_BUFFER_SIZE, nd)
         IN  IF ~Stored(s1) THEN s1
             ELSE [s1 EXCEPT !.tempBuffer = Store(@, s.tempBufferCount, p),
                             !.tempBufferCount = @ + 1]
    ELSE StoreVertex(s, p)

\* rlVertex2f passing the depth of the first shape of a batch, -1.0f,
\* whatever currentDepth is
rlVertex2f_flat(s, nd, x) == rlVertex3f(s, nd, Pos(x, 0))

\* void rlVertex2f(float x, float y)
rlVertex2f(s, nd, x) == rlVertex3f(s, nd, Pos(x, s.currentDepth))

\* void rlVertex2i(int x, int y); the model's coordinates are small
\* integers, which (float) converts exactly
rlVertex2i(s, nd, x) == rlVertex3f(s, nd, Pos(x, s.currentDepth))

\* void rlTexCoord2f(float x, float y)
rlTexCoord2f(s, nd, t) ==
    IF s.currentDrawMode = RL_QUADS
    THEN LET s1 == Overrun(s, "quads.texcoords", s.quads.tcCounter,
                           Capacity(s.batch, RL_QUADS), nd)
         IN  IF ~Stored(s1) THEN s1
             ELSE [s1 EXCEPT !.quads.texcoords = Store(@, s.quads.tcCounter, t),
                             !.quads.tcCounter = @ + 1]
    ELSE s

\* void rlColor4ub(byte x, byte y, byte z, byte w)
rlColor4ub(s, nd, c) ==
    LET f == BufferOf(s.currentDrawMode)
        s1 == Overrun(s, ColorsOf(s.currentDrawMode), s[f].cCounter,
                      Capacity(s.batch, s.currentDrawMode), nd)
    IN  IF ~Stored(s1) THEN s1
        ELSE [s1 EXCEPT ![f].colors = Store(@, s[f].cCounter, c),
                        ![f].cCounter = @ + 1]

RECURSIVE ReplayTemp(_, _, _)
\* for (i = 0; i < tempBufferCount; i++) rlVertex3f(tempBuffer[i]...)
ReplayTemp(s, nd, i) ==
    IF i >= s.tempBufferCount \/ ~Running(s) THEN s
    ELSE ReplayTemp(rlVertex3f(s, nd, s.tempBuffer[i]), nd, i + 1)

\* the block with the loop of VectorTransform lost: the points are replayed
\* as they were staged
FlushTempBuffer_untransformed(s, nd) ==
    IF s.useTempBuffer
    THEN LET s2 == ReplayTemp([s EXCEPT !.useTempBuffer = FALSE], nd, 0)
         IN  IF Running(s2)
             THEN [s2 EXCEPT !.tempBufferCount = 0, !.tempBuffer = NoItems]
             ELSE s2
    ELSE s

\* the if (useTempBuffer) block of rlEnd
FlushTempBuffer(s, nd) ==
    IF s.useTempBuffer
    THEN LET m == CurrentMatrix(s)
             s1 == [s EXCEPT
                      !.tempBuffer = [i \in DOMAIN @ |-> VectorTransform(@[i], m)],
                      !.useTempBuffer = FALSE]
             s2 == ReplayTemp(s1, nd, 0)
         IN  IF Running(s2)
             THEN [s2 EXCEPT !.tempBufferCount = 0, !.tempBuffer = NoItems]
             ELSE s2
    ELSE s

RECURSIVE AddColors_first(_, _, _, _)
\* the replication loop copying the first colour of the array instead of
\* the one before cCounter
AddColors_first(b, nd, i, addColors) ==
    IF i >= addColors THEN b
    ELSE AddColors_first([b EXCEPT
                            !.colors = Store(@, b.cCounter,
                                             IF b.cCounter = 0 THEN nd.garbage
                                             ELSE @[0]),
                            !.cCounter = @ + 1],
                         nd, i + 1, addColors)

RECURSIVE AddColors(_, _, _, _)
\* for (i = 0; i < addColors; i++) { colors[4*cCounter] = colors[4*cCounter - 4]; ... cCounter++; }
AddColors(b, nd, i, addColors) ==
    IF i >= addColors THEN b
    ELSE AddColors([b EXCEPT
                      !.colors = Store(@, b.cCounter,
                                       IF b.cCounter = 0 THEN nd.garbage
                                       ELSE @[b.cCounter - 1]),
                      !.cCounter = @ + 1],
                   nd, i + 1, addColors)

RECURSIVE AddTexCoords_last(_, _, _)
\* the loop filling the missing texcoords with the one before tcCounter, as
\* the loop of the colours does
AddTexCoords_last(b, i, addTexCoords) ==
    IF i >= addTexCoords THEN b
    ELSE AddTexCoords_last([b EXCEPT
                              !.texcoords = Store(@, b.tcCounter,
                                                  IF b.tcCounter = 0 THEN "zero"
                                                  ELSE @[b.tcCounter - 1]),
                              !.tcCounter = @ + 1],
                           i + 1, addTexCoords)

RECURSIVE AddTexCoords(_, _, _)
\* for (i = 0; i < addTexCoords; i++) { texcoords[2*tcCounter] = 0.0f; ... tcCounter++; }
AddTexCoords(b, i, addTexCoords) ==
    IF i >= addTexCoords THEN b
    ELSE AddTexCoords([b EXCEPT !.texcoords = Store(@, b.tcCounter, "zero"),
                                !.tcCounter = @ + 1],
                      i + 1, addTexCoords)

\* the colour part of one case of the switch in rlEnd
ReconcileColors(s, nd, mode) ==
    LET f == BufferOf(mode)
        b == s[f]
    IN  IF b.vCounter # b.cCounter
        THEN [s EXCEPT ![f] = AddColors(b, nd, 0, b.vCounter - b.cCounter)]
        ELSE s

\* the texcoord part of the RL_QUADS case of the switch in rlEnd
ReconcileTexCoords(s) ==
    IF s.quads.vCounter # s.quads.tcCounter
    THEN [s EXCEPT !.quads =
             AddTexCoords(@, 0, s.quads.vCounter - s.quads.tcCounter)]
    ELSE s

\* void rlEnd(void)
rlEnd(s, nd) ==
    LET s1 == FlushTempBuffer(s, nd)
        s2 == IF s1.currentDrawMode = RL_QUADS
              THEN ReconcileTexCoords(ReconcileColors(s1, nd, RL_QUADS))
              ELSE ReconcileColors(s1, nd, s1.currentDrawMode)
    IN  IF ~Running(s1) THEN s1
        ELSE [s2 EXCEPT !.currentDepth = @ + 1]

----------------------------------------------------------------------------
(* The draw-call ledger.                                                   *)

\* rlEnableTexture with the test of vertexCount > 0 lost: the last entry is
\* always reused, whatever it counts
rlEnableTexture_reuse(s, nd, id) ==
    IF s.draws[s.drawsCounter - 1].textureId # id
    THEN [s EXCEPT !.draws[s.drawsCounter - 1] =
                       [textureId |-> id, vertexCount |-> 0]]
    ELSE s

\* rlEnableTexture without a new entry: the last entry takes the texture
\* and keeps its count
rlEnableTexture_retag(s, nd, id) ==
    [s EXCEPT !.draws[s.drawsCounter - 1].textureId = id]

\* rlEnableTexture with the comparison of id with the last entry lost: the
\* texture is recorded anew at every call
rlEnableTexture_always(s, nd, id) ==
    LET dc == IF s.draws[s.drawsCounter - 1].vertexCount > 0
              THEN s.drawsCounter + 1
              ELSE s.drawsCounter
        s1 == Overrun(s, "draws", dc - 1, MAX_DRAWS_BY_TEXTURE, nd)
    IN  IF ~Stored(s1) THEN s1
        ELSE [s1 EXCEPT
                !.drawsCounter = dc,
                !.draws = Store(@, dc - 1,
                                [textureId |-> id, vertexCount |-> 0])]

\* void rlEnableTexture(unsigned int id)
rlEnableTexture(s, nd, id) ==
    IF s.draws[s.drawsCounter - 1].textureId # id
    THEN LET dc == IF s.draws[s.drawsCounter - 1].vertexCount > 0
                   THEN s.drawsCounter + 1
                   ELSE s.drawsCounter
             s1 == Overrun(s, "draws", dc - 1, MAX_DRAWS_BY_TEXTURE, nd)
         IN  IF ~Stored(s1) THEN s1
             ELSE [s1 EXCEPT
                     !.drawsCounter = dc,
                     !.draws = Store(@, dc - 1,
                                     [textureId |-> id, vertexCount |-> 0])]
    ELSE s

\* rlDisableTexture as it is under GRAPHICS_API_OPENGL_11, carried to the
\* ledger: texture 0 becomes the texture of the last entry
rlDisableTexture_unbind(s) ==
    [s EXCEPT !.draws[s.drawsCounter - 1].textureId = 0]

\* void rlDisableTexture(void)
rlDisableTexture(s) == s

----------------------------------------------------------------------------
(* The flush.                                                              *)

\* one OpenGL command
GL(cmd, arg, n, offset) == [cmd |-> cmd, arg |-> arg, n |-> n, offset |-> offset]

\* UpdateDefaultBuffers with the tests of vCounter > 0 lost: every array is
\* uploaded, whatever it holds
UpdateDefaultBuffers_always(s) ==
    << GL("glBufferSubData", "lines.vertices", s.lines.vCounter, 0),
       GL("glBufferSubData", "lines.colors", s.lines.cCounter, 0),
       GL("glBufferSubData", "triangles.vertices", s.triangles.vCounter, 0),
       GL("glBufferSubData", "triangles.colors", s.triangles.cCounter, 0),
       GL("glBufferSubData", "quads.vertices", s.quads.vCounter, 0),
       GL("glBufferSubData", "quads.texcoords", s.quads.vCounter, 0),
       GL("glBufferSubData", "quads.colors", s.quads.vCounter, 0) >>

\* static void UpdateDefaultBuffers(void)
UpdateDefaultBuffers(s) ==
       (IF s.lines.vCounter > 0
        THEN << GL("glBufferSubData", "lines.vertices", s.lines.vCounter, 0),
                GL("glBufferSubData", "lines.colors", s.lines.cCounter, 0) >>
        ELSE << >>)
    \o (IF s.triangles.vCounter > 0
        THEN << GL("glBufferSubData", "triangles.vertices", s.triangles.vCounter, 0),
                GL("glBufferSubData", "triangles.colors", s.triangles.cCounter, 0) >>
        ELSE << >>)
    \o (IF s.quads.vCounter > 0
        THEN << GL("glBufferSubData", "quads.vertices", s.quads.vCounter, 0),
                GL("glBufferSubData", "quads.texcoords", s.quads.vCounter, 0),
                GL("glBufferSubData", "quads.colors", s.quads.vCounter, 0) >>
        ELSE << >>)

RECURSIVE DrawQuads_fixedOffset(_, _, _)
\* the loop of rlglDraw with indicesOffset never advanced
DrawQuads_fixedOffset(s, i, indicesOffset) ==
    IF i >= s.drawsCounter THEN << >>
    ELSE << GL("glBindTexture", "GL_TEXTURE_2D", s.draws[i].textureId, 0),
            GL("glDrawElements", "GL_TRIANGLES",
               (s.draws[i].vertexCount \div 4) * 6, indicesOffset) >>
         \o DrawQuads_fixedOffset(s, i + 1, indicesOffset)

RECURSIVE DrawQuads(_, _, _)
\* for (i = 0; i < drawsCounter; i++) { ... glDrawElements ... }
DrawQuads(s, i, indicesOffset) ==
    IF i >= s.drawsCounter THEN << >>
    ELSE LET quadsCount == s.draws[i].vertexCount \div 4
             numIndicesToProcess == quadsCount * 6
         IN  << GL("glBindTexture", "GL_TEXTURE_2D", s.draws[i].textureId, 0),
                GL("glDrawElements", "GL_TRIANGLES", numIndicesToProcess,
                   indicesOffset) >>
             \o DrawQuads(s, i + 1,
                          indicesOffset + (s.draws[i].vertexCount \div 4) * 6)

\* the commands of rlglDraw with the triangles block moved above the lines
\* block
DrawCommands_trianglesFirst(s) ==
       UpdateDefaultBuffers(s)
    \o (IF s.lines.vCounter > 0 \/ s.triangles.vCounter > 0 \/ s.quads.vCounter > 0
        THEN << GL("glUseProgram", "", s.currentShader, 0) >>
        ELSE << >>)
    \o (IF s.triangles.vCounter > 0
        THEN << GL("glBindTexture", "GL_TEXTURE_2D", whiteTexture, 0),
                GL("glDrawArrays", "GL_TRIANGLES", s.triangles.vCounter, 0),
                GL("glBindTexture", "GL_TEXTURE_2D", 0, 0) >>
        ELSE << >>)
    \o (IF s.lines.vCounter > 0
        THEN << GL("glBindTexture", "GL_TEXTURE_2D", whiteTexture, 0),
                GL("glDrawArrays", "GL_LINES", s.lines.vCounter, 0),
                GL("glBindTexture", "GL_TEXTURE_2D", 0, 0) >>
        ELSE << >>)
    \o (IF s.quads.vCounter > 0
        THEN DrawQuads(s, 0, 0)
             \o << GL("glBindTexture", "GL_TEXTURE_2D", 0, 0) >>
        ELSE << >>)
    \o << GL("glUseProgram", "", 0, 0) >>

\* the OpenGL commands of rlglDraw, in order
DrawCommands(s) ==
       UpdateDefaultBuffers(s)
    \o (IF s.lines.vCounter > 0 \/ s.triangles.vCounter > 0 \/ s.quads.vCounter > 0
        THEN << GL("glUseProgram", "", s.currentShader, 0) >>
        ELSE << >>)
    \o (IF s.lines.vCounter > 0
        THEN << GL("glBindTexture", "GL_TEXTURE_2D", whiteTexture, 0),
                GL("glDrawArrays", "GL_LINES", s.lines.vCounter, 0),
                GL("glBindTexture", "GL_TEXTURE_2D", 0, 0) >>
        ELSE << >>)
    \o (IF s.triangles.vCounter > 0
        THEN << GL("glBindTexture", "GL_TEXTURE_2D", whiteTexture, 0),
                GL("glDrawArrays", "GL_TRIANGLES", s.triangles.vCounter, 0),
                GL("glBindTexture", "GL_TEXTURE_2D", 0, 0) >>
        ELSE << >>)
    \o (IF s.quads.vCounter > 0
        THEN DrawQuads(s, 0, 0)
             \o << GL("glBindTexture", "GL_TEXTURE_2D", 0, 0) >>
        ELSE << >>)
    \o << GL("glUseProgram", "", 0, 0) >>

\* a buffer with its counters at zero
EmptyBuffer == [vCounter |-> 0, cCounter |-> 0,
                vertices |-> NoItems, colors |-> NoItems]
EmptyQuads == [vCounter |-> 0, tcCounter |-> 0, cCounter |-> 0,
               vertices |-> NoItems, texcoords |-> NoItems, colors |-> NoItems]

\* the resets of rlglDraw with the one of triangles.cCounter forgotten
ResetBatch_keepsColors(s) ==
    [s EXCEPT !.drawsCounter = 1,
              !.draws = Store(NoItems, 0,
                              [textureId |-> whiteTexture, vertexCount |-> 0]),
              !.lines = EmptyBuffer,
              !.triangles = [EmptyBuffer EXCEPT !.cCounter = s.triangles.cCounter,
                                                !.colors = s.triangles.colors],
              !.quads = EmptyQuads,
              !.currentDepth = 0]

\* the resets of rlglDraw extended to the staging buffer
ResetBatch_dropsStaged(s) ==
    [s EXCEPT !.drawsCounter = 1,
              !.draws = Store(NoItems, 0,
                              [textureId |-> whiteTexture, vertexCount |-> 0]),
              !.lines = EmptyBuffer,
              !.triangles = EmptyBuffer,
              !.quads = EmptyQuads,
              !.currentDepth = 0,
              !.tempBufferCount = 0,
              !.tempBuffer = NoItems]

\* the resets that end rlglDraw
ResetBatch(s) ==
    [s EXCEPT !.drawsCounter = 1,
              !.draws = Store(NoItems, 0,
                              [textureId |-> whiteTexture, vertexCount |-> 0]),
              !.lines = EmptyBuffer,
              !.triangles = EmptyBuffer,
              !.quads = EmptyQuads,
              !.currentDepth = 0]

\* void rlglDraw(void)
rlglDraw(s) == ResetBatch([s EXCEPT !.glCalls = @ \o DrawCommands(s)])

----------------------------------------------------------------------------
(* Shader and blend mode changes.                                          *)

\* SetCustomShader with the assignment made before the flush
SetCustomShader_assignFirst(s, id) ==
    IF s.currentShader # id
    THEN rlglDraw([s EXCEPT !.currentShader = id])
    ELSE s

\* void SetCustomShader(Shader shader); a shader is its program id
SetCustomShader(s, id) ==
    IF s.currentShader # id
    THEN [rlglDraw(s) EXCEPT !.currentShader = id]
    ELSE s

\* void SetDefaultShader(void)
SetDefaultShader(s) == SetCustomShader(s, defaultShaderId)

\* static char *ReadTextFile(const char *fileName): NULL when the file
\* cannot be opened and when it holds no character
ReadTextFile(file) ==
    IF file = "missing" \/ file = "empty" THEN "NULL" ELSE file

\* unsigned int LoadShaderProgram(char *vShaderStr, char *fShaderStr); gl
\* tells what OpenGL answers: the compile status of the fragment shader
\* (the one of the vertex shader is only logged), the name glCreateProgram
\* returns (0 when it fails) and the link status of a program; the status
\* query of the program 0 is an OpenGL error that leaves success as the
\* fragment compile left it
LoadShaderProgram(s, gl) ==
    LET success == IF gl.program = 0 THEN gl.fsOk ELSE gl.linkOk
        cmds == << GL("glCompileShader", "GL_VERTEX_SHADER", 0, 0),
                   GL("glCompileShader", "GL_FRAGMENT_SHADER", 0, 0),
                   GL("glLinkProgram", "", gl.program, 0) >>
                \o (IF success THEN << >>
                    ELSE << GL("glDeleteProgram", "", gl.program, 0) >>)
    IN  [s |-> [s EXCEPT !.glCalls = @ \o cmds],
         program |-> IF success THEN gl.program ELSE 0]

\* LoadShader without the test of shader.id == 0 that falls back to the
\* default shader
LoadShader_noFallback(s, vsFileName, fsFileName, gl) ==
    IF ReadTextFile(vsFileName) # "NULL" /\ ReadTextFile(fsFileName) # "NULL"
    THEN LET p == LoadShaderProgram(s, gl)
         IN  [s |-> p.s, shader |-> p.program]
    ELSE [s |-> s, shader |-> 0]

\* Shader LoadShader(char *vsFileName, char *fsFileName); a shader is its
\* program id
LoadShader(s, vsFileName, fsFileName, gl) ==
    LET p == IF ReadTextFile(vsFileName) # "NULL"
                /\ ReadTextFile(fsFileName) # "NULL"
             THEN LoadShaderProgram(s, gl)
             ELSE [s |-> s, program |-> 0]
    IN  IF p.program = 0
        THEN [s |-> TraceLog(p.s, "WARNING", "Custom shader could not be loaded"),
              shader |-> defaultShaderId]
        ELSE [s |-> p.s, shader |-> p.program]

\* enum BlendMode
BLEND_ALPHA == 0
BLEND_ADDITIVE == 1
BLEND_MULTIPLIED == 2

\* the switch (mode) of SetBlendMode
BlendFunc(mode) ==
    CASE mode = BLEND_ALPHA ->
            << GL("glBlendFunc", "GL_SRC_ALPHA, GL_ONE_MINUS_SRC_ALPHA", 0, 0) >>
      [] mode = BLEND_ADDITIVE ->
            << GL("glBlendFunc", "GL_SRC_ALPHA, GL_ONE", 0, 0) >>
      [] mode = BLEND_MULTIPLIED ->
            << GL("glBlendFunc", "GL_DST_COLOR, GL_ONE_MINUS_SRC_ALPHA", 0, 0) >>
      [] OTHER -> << >>

\* SetBlendMode with the call of rlglDraw lost
SetBlendMode_noFlush(s, mode) ==
    IF s.blendMode # mode /\ mode < 3
    THEN [s EXCEPT !.glCalls = @ \o BlendFunc(mode), !.blendMode = mode]
    ELSE s

\* void SetBlendMode(int mode)
SetBlendMode(s, mode) ==
    IF s.blendMode # mode /\ mode < 3
    THEN [rlglDraw(s) EXCEPT !.glCalls = @ \o BlendFunc(mode),
                             !.blendMode = mode]
    ELSE s

----------------------------------------------------------------------------
(* Initialization.                                                         *)

\* the index loop of LoadDefaultBuffers from element i and quad k on, for n
\* quads: six stores per quad, each converted to the element type
RECURSIVE FillQuadIndices(_, _, _, _)
FillQuadIndices(a, i, k, n) ==
    IF i < 6 * n
    THEN FillQuadIndices(
             [j \in (DOMAIN a) \cup (i .. i + 5) |->
                 IF j = i THEN (4 * k) % IndexRange
                 ELSE IF j = i + 1 THEN (4 * k + 1) % IndexRange
                 ELSE IF j = i + 2 THEN (4 * k + 2) % IndexRange
                 ELSE IF j = i + 3 THEN (4 * k) % IndexRange
                 ELSE IF j = i + 4 THEN (4 * k + 2) % IndexRange
                 ELSE IF j = i + 5 THEN (4 * k + 3) % IndexRange
                 ELSE a[j]],
             i + 6, k + 1, n)
    ELSE a

\* an index loop that builds every quad from the vertices of the first one
LoadQuadIndices_firstQuad(n) ==
    [j \in 0 .. 6 * n - 1 |-> FillQuadIndices(NoItems, 0, 0, 1)[j % 6]]

\* quads.indices as LoadDefaultBuffers leaves it for n quads
LoadQuadIndices(n) == FillQuadIndices(NoItems, 0, 0, n)

\* the state rlglInit leaves, for a build with the batch sizes b
rlglInit(b) ==
    [proc |-> "running",
     batch |-> b,
     currentDrawMode |-> RL_TRIANGLES,
     lines |-> EmptyBuffer,
     triangles |-> EmptyBuffer,
     quads |-> EmptyQuads,
     indices |-> LoadQuadIndices(b[RL_QUADS]),
     draws |-> Store(NoItems, 0, [textureId |-> whiteTexture, vertexCount |-> 0]),
     drawsCounter |-> 1,
     currentDepth |-> 0,
     tempBuffer |-> NoItems,
     tempBufferCount |-> 0,
     useTempBuffer |-> FALSE,
     stack |-> NoItems,
     stackCounter |-> 0,
     modelview |-> MatrixIdentity,
     projection |-> MatrixIdentity,
     currentMatrix |-> "modelview",
     currentMatrixMode |-> "0",
     currentShader |-> defaultShaderId,
     blendMode |-> 0,
     memFault |-> {},
     errLog |-> << >>,
     glCalls |-> << >>]

----------------------------------------------------------------------------
(* The state machine: one action per public function.                      *)

\* the program state as the record the operators above work on; glCalls
\* starts empty at every call
Cur ==
    [proc |-> proc, batch |-> batch, currentDrawMode |-> currentDrawMode,
     lines |-> lines, triangles |-> triangles, quads |-> quads,
     indices |-> indices,
     draws |-> draws, drawsCounter |-> drawsCounter,
     currentDepth |-> currentDepth,
     tempBuffer |-> tempBuffer, tempBufferCount |-> tempBufferCount,
     useTempBuffer |-> useTempBuffer,
     stack |-> stack, stackCounter |-> stackCounter,
     modelview |-> modelview, projection |-> projection,
     currentMatrix |-> currentMatrix, currentMatrixMode |-> currentMatrixMode,
     currentShader |-> currentShader, blendMode |-> blendMode,
     memFault |-> memFault, errLog |-> errLog, glCalls |-> << >>]

\* the variables hold the state r
Holds(r) ==
    /\ proc = r.proc
    /\ batch = r.batch
    /\ currentDrawMode = r.currentDrawMode
    /\ lines = r.lines
    /\ triangles = r.triangles
    /\ quads = r.quads
    /\ indices = r.indices
    /\ draws = r.draws
    /\ drawsCounter = r.drawsCounter
    /\ currentDepth = r.currentDepth
    /\ tempBuffer = r.tempBuffer
    /\ tempBufferCount = r.tempBufferCount
    /\ useTempBuffer = r.useTempBuffer
    /\ stack = r.stack
    /\ stackCounter = r.stackCounter
    /\ modelview = r.modelview
    /\ projection = r.projection
    /\ currentMatrix = r.currentMatrix
    /\ currentMatrixMode = r.currentMatrixMode
    /\ currentShader = r.currentShader
    /\ blendMode = r.blendMode
    /\ memFault = r.memFault
    /\ errLog = r.errLog
    /\ glCalls = r.glCalls

\* the next state is r
Becomes(r) ==
    /\ proc' = r.proc
    /\ batch' = r.batch
    /\ currentDrawMode' = r.currentDrawMode
    /\ lines' = r.lines
    /\ triangles' = r.triangles
    /\ quads' = r.quads
    /\ indices' = r.indices
    /\ draws' = r.draws
    /\ drawsCounter' = r.drawsCounter
    /\ currentDepth' = r.currentDepth
    /\ tempBuffer' = r.tempBuffer
    /\ tempBufferCount' = r.tempBufferCount
    /\ useTempBuffer' = r.useTempBuffer
    /\ stack' = r.stack
    /\ stackCounter' = r.stackCounter
    /\ modelview' = r.modelview
    /\ projection' = r.projection
    /\ currentMatrix' = r.currentMatrix
    /\ currentMatrixMode' = r.currentMatrixMode
    /\ currentShader' = r.currentShader
    /\ blendMode' = r.blendMode
    /\ memFault' = r.memFault
    /\ errLog' = r.errLog
    /\ glCalls' = r.glCalls

\* the observer of the scenario when no scenario is followed
ScenOff == [k |-> -1, pre |-> 0, A |-> 0, B |-> 0, clean |-> FALSE]

\* a call op(arg) of a public function that takes the program to the state
\* r and returns ret; a process that has exited or crashed makes no call
StepRet(op, arg, ret, r, sc) ==
    /\ proc = "running"
    /\ Becomes(r)
    /\ lastOp' = op
    /\ lastArg' = arg
    /\ lastRet' = ret
    /\ scen' = sc

\* the same, for a void function
StepArg(op, arg, r, sc) == StepRet(op, arg, 0, r, sc)

\* the same, when the argument is not recorded
Step(op, r, sc) == StepArg(op, 0, r, sc)

\* the state after rlglInit in a build with the batch sizes b
InitWith(b, sc) ==
    /\ Holds(rlglInit(b))
    /\ lastOp = "rlglInit"
    /\ lastArg = 0
    /\ lastRet = 0
    /\ scen = sc

Call_rlMatrixMode(Modes) ==
    \E mode \in Modes : Step("rlMatrixMode", rlMatrixMode(Cur, mode), scen)

Call_rlPushMatrix == Step("rlPushMatrix", rlPushMatrix(Cur), scen)

Call_rlPopMatrix == Step("rlPopMatrix", rlPopMatrix(Cur), scen)

Call_rlTranslatef(X) ==
    \E x \in X : Step("rlTranslatef", rlTranslatef(Cur, x), scen)

Call_rlBegin(Modes) ==
    \E mode \in Modes : Step("rlBegin", rlBegin(Cur, mode), scen)

Call_rlVertex3f(P, ND) ==
    \E p \in P, nd \in ND : Step("rlVertex3f", rlVertex3f(Cur, nd, p), scen)

Call_rlVertex2f(X, ND) ==
    \E x \in X, nd \in ND : Step("rlVertex2f", rlVertex2f(Cur, nd, x), scen)

Call_rlVertex2i(X, ND) ==
    \E x \in X, nd \in ND : Step("rlVertex2i", rlVertex2i(Cur, nd, x), scen)

Call_rlColor4ub(C, ND) ==
    \E c \in C, nd \in ND : Step("rlColor4ub", rlColor4ub(Cur, nd, c), scen)

Call_rlTexCoord2f(T, ND) ==
    \E t \in T, nd \in ND : Step("rlTexCoord2f", rlTexCoord2f(Cur, nd, t), scen)

Call_rlEnd(ND, maxDepth) ==
    /\ currentDepth < maxDepth
    /\ \E nd \in ND : Step("rlEnd", rlEnd(Cur, nd), scen)

Call_rlEnableTexture(Ids, ND) ==
    \E id \in Ids, nd \in ND :
        StepArg("rlEnableTexture", id, rlEnableTexture(Cur, nd, id), scen)

Call_rlDisableTexture == Step("rlDisableTexture", rlDisableTexture(Cur), scen)

Call_rlglDraw == Step("rlglDraw", rlglDraw(Cur), scen)

Call_SetCustomShader(Ids) ==
    \E id \in Ids :
        StepArg("SetCustomShader", id, SetCustomShader(Cur, id), scen)

Call_SetDefaultShader == Step("SetDefaultShader", SetDefaultShader(Cur), scen)

Call_LoadShader(Files, Answers) ==
    \E vs \in Files, fs \in Files, gl \in Answers :
        LET r == LoadShader(Cur, vs, fs, gl)
        IN  StepRet("LoadShader", [vs |-> vs, fs |-> fs, gl |-> gl],
                    r.shader, r.s, scen)

Call_SetBlendMode(Modes) ==
    \E mode \in Modes :
        StepArg("SetBlendMode", mode, SetBlendMode(Cur, mode), scen)

----------------------------------------------------------------------------
(* SpecLedger: a client that switches textures, submits quad vertices and  *)
(* flushes.                                                                *)

LedgerQuadsBatch == 1
LedgerMaxDepth == 1
LedgerND == [lands : BOOLEAN, garbage : {"junk"}]

InitLedger ==
    InitWith([m \in Topologies |-> IF m = RL_QUADS THEN LedgerQuadsBatch ELSE 1],
             ScenOff)

NextLedger ==
    \/ Call_rlBegin({RL_QUADS})
    \/ Call_rlVertex3f({0}, LedgerND)
    \/ Call_rlEnd(LedgerND, LedgerMaxDepth)
    \/ Call_rlEnableTexture(TextureIds, LedgerND)
    \/ Call_rlglDraw

SpecLedger == InitLedger /\ [][NextLedger]_vars

\* C1: in every reachable state no two consecutive ledger entries draws[i],
\* draws[i+1] with i+1 < drawsCounter carry the same textureId
C1_NoAdjacentSameTexture ==
    \A i \in 0..(drawsCounter - 2) : draws[i].textureId # draws[i + 1].textureId

RECURSIVE LedgerSum(_)
\* the sum of draws[i].vertexCount over i in [0, n)
LedgerSum(n) == IF n <= 0 THEN 0 ELSE draws[n - 1].vertexCount + LedgerSum(n - 1)

\* C2: in every reachable state the sum of draws[i].vertexCount over
\* i in [0, drawsCounter) equals quads.vCounter
C2_LedgerSumIsVertexCount == LedgerSum(drawsCounter) = quads.vCounter

\* a ledger of two runs that both count vertices
C2_Witness ==
    /\ proc = "running"
    /\ drawsCounter = 2
    /\ draws[0].vertexCount > 0
    /\ draws[1].vertexCount > 0

\* C7: in every reachable state 1 <= drawsCounter <= MAX_DRAWS_BY_TEXTURE and
\* nothing was written at draws[MAX_DRAWS_BY_TEXTURE]
C7_LedgerBounded ==
    /\ 1 <= drawsCounter
    /\ drawsCounter <= MAX_DRAWS_BY_TEXTURE
    /\ <<"draws", MAX_DRAWS_BY_TEXTURE>> \notin memFault

\* C11: a rlEnableTexture(id) call with id the textureId of the last entry
\* leaves the ledger unchanged; any other leaves drawsCounter one higher when
\* the last entry counts vertices and unchanged when it counts none, and
\* makes the last entry (id, 0)
C11_EnableTextureStep ==
    [][lastOp' = "rlEnableTexture" =>
          LET id == lastArg'
              last == draws[drawsCounter - 1]
          IN  IF last.textureId = id
              THEN drawsCounter' = drawsCounter /\ draws' = draws
              ELSE /\ drawsCounter' = drawsCounter
                                        + (IF last.vertexCount # 0 THEN 1 ELSE 0)
                   /\ draws'[drawsCounter' - 1] = [textureId |-> id, vertexCount |-> 0]
      ]_vars

\* the indexed draws among the OpenGL commands, each with the texture bound
\* right before it
IndexedDraws(calls) ==
    LET at == SelectSeq([j \in 1..Len(calls) |-> j],
                        LAMBDA j : calls[j].cmd = "glDrawElements")
    IN  [k \in 1..Len(at) |->
            [textureId |-> IF at[k] > 1 /\ calls[at[k] - 1].cmd = "glBindTexture"
                           THEN calls[at[k] - 1].n ELSE -1,
             count |-> calls[at[k]].n,
             offset |-> calls[at[k]].offset]]

RECURSIVE IndicesBefore(_)
\* the sum over j < i of (draws[j].vertexCount / 4) * 6
IndicesBefore(i) ==
    IF i <= 0 THEN 0
    ELSE (draws[i - 1].vertexCount \div 4) * 6 + IndicesBefore(i - 1)

\* C9: a rlglDraw called with quads.vCounter > 0 issues exactly drawsCounter
\* indexed draws, in ledger order; draw i binds draws[i].textureId, takes
\* (draws[i].vertexCount / 4) * 6 indices and starts at the sum of the index
\* counts of the entries before it
C9_OneDrawPerEntry ==
    [][(lastOp' = "rlglDraw" /\ quads.vCounter > 0) =>
          IndexedDraws(glCalls') =
             [k \in 1..drawsCounter |->
                 [textureId |-> draws[k - 1].textureId,
                  count |-> (draws[k - 1].vertexCount \div 4) * 6,
                  offset |-> IndicesBefore(k - 1)]]]_vars

\* a flush whose second indexed draw starts behind the indices of the first
C9_Witness ==
    /\ lastOp = "rlglDraw"
    /\ Len(IndexedDraws(glCalls)) >= 2
    /\ IndexedDraws(glCalls)[1].count > 0
    /\ IndexedDraws(glCalls)[2].offset = IndexedDraws(glCalls)[1].count

----------------------------------------------------------------------------
(* SpecAttr: a client that submits vertices, colours and texcoords of one  *)
(* topology per batch, ends shapes and flushes. SpecColour: the same       *)
(* client when it submits no texcoord.                                     *)

\* MAX_LINES_BATCH, MAX_TRIANGLES_BATCH and MAX_QUADS_BATCH of the build
AttrBatch == 1
\* rlEnd calls per batch
AttrMaxDepth == 1

InitAttr == InitWith([m \in Topologies |-> AttrBatch], ScenOff)

\* no buffer holds an item
BatchIsEmpty ==
    /\ lines.vCounter = 0 /\ lines.cCounter = 0
    /\ triangles.vCounter = 0 /\ triangles.cCounter = 0
    /\ quads.vCounter = 0 /\ quads.cCounter = 0 /\ quads.tcCounter = 0

\* the client changes topology between batches only
Attr_rlBegin ==
    \E mode \in Topologies :
        /\ BatchIsEmpty \/ mode = currentDrawMode
        /\ Step("rlBegin", rlBegin(Cur, mode), scen)

NextAttr ==
    \/ Attr_rlBegin
    \/ Call_rlVertex3f({0}, NDChoices)
    \/ Call_rlColor4ub(Colours, NDChoices)
    \/ Call_rlTexCoord2f({"uv"}, NDChoices)
    \/ Call_rlEnd(NDChoices, AttrMaxDepth)
    \/ Call_rlglDraw

SpecAttr == InitAttr /\ [][NextAttr]_vars

NextColour ==
    \/ Attr_rlBegin
    \/ Call_rlVertex3f({0}, NDChoices)
    \/ Call_rlColor4ub(Colours, NDChoices)
    \/ Call_rlEnd(NDChoices, AttrMaxDepth)
    \/ Call_rlglDraw

SpecColour == InitAttr /\ [][NextColour]_vars

\* the buffer of the active topology
ActiveBuffer == Cur[BufferOf(currentDrawMode)]

\* C3: a rlEnd called with M colours and N vertices in the active buffer,
\* 1 <= M < N <= capacity, leaves cCounter = N, the colours 0..M-1 unchanged
\* and the colours M..N-1 each equal to colour M-1
C3_MissingColoursRepeatLast ==
    [][LET b == ActiveBuffer
           M == b.cCounter
           N == b.vCounter
       IN  (/\ lastOp' = "rlEnd"
            /\ ~useTempBuffer
            /\ 1 <= M /\ M < N /\ N <= Capacity(batch, currentDrawMode))
           => (/\ proc' = "running"
               /\ ActiveBuffer'.vCounter = N
               /\ ActiveBuffer'.cCounter = N
               /\ DOMAIN ActiveBuffer'.colors = 0..(N - 1)
               /\ \A i \in 0..(M - 1) : ActiveBuffer'.colors[i] = b.colors[i]
               /\ \A i \in M..(N - 1) : ActiveBuffer'.colors[i] = b.colors[M - 1])
      ]_vars

\* three triangle vertices whose colours, after rlEnd, end in a repeated
\* colour that differs from the first
C3_Witness ==
    /\ lastOp = "rlEnd"
    /\ proc = "running"
    /\ currentDrawMode = RL_TRIANGLES
    /\ triangles.vCounter = 3
    /\ triangles.cCounter = 3
    /\ triangles.colors[0] = "red"
    /\ triangles.colors[1] = "blue"
    /\ triangles.colors[2] = "blue"

\* C4: after every rlEnd the active buffer has cCounter = vCounter and, for
\* quads, tcCounter = vCounter
C4_CountersEqualAfterEnd ==
    (lastOp = "rlEnd" /\ proc = "running") =>
        /\ ActiveBuffer.cCounter = ActiveBuffer.vCounter
        /\ currentDrawMode = RL_QUADS => quads.tcCounter = quads.vCounter

\* C6: in every reachable state cCounter of each buffer and quads.tcCounter
\* are at most the vertex capacity of their buffer, and no colour or texcoord
\* was written at an index >= capacity
C6_AttributesWithinCapacity ==
    /\ lines.cCounter <= Capacity(batch, RL_LINES)
    /\ triangles.cCounter <= Capacity(batch, RL_TRIANGLES)
    /\ quads.cCounter <= Capacity(batch, RL_QUADS)
    /\ quads.tcCounter <= Capacity(batch, RL_QUADS)
    /\ \A f \in memFault :
          f[1] \notin {"lines.colors", "triangles.colors", "quads.colors",
                       "quads.texcoords"}

\* C8: after rlglInit and after every rlglDraw all counters of the three
\* buffers are 0, drawsCounter = 1, draws[0] = (whiteTexture, 0) and
\* currentDepth is at its sentinel
C8_FreshAfterInitAndDraw ==
    lastOp \in {"rlglInit", "rlglDraw"} =>
        /\ lines.vCounter = 0 /\ lines.cCounter = 0
        /\ triangles.vCounter = 0 /\ triangles.cCounter = 0
        /\ quads.vCounter = 0 /\ quads.tcCounter = 0 /\ quads.cCounter = 0
        /\ drawsCounter = 1
        /\ draws[0] = [textureId |-> whiteTexture, vertexCount |-> 0]
        /\ currentDepth = 0

\* a rlglDraw that drew a batch
C8_Witness ==
    /\ lastOp = "rlglDraw"
    /\ \E j \in 1..Len(glCalls) : glCalls[j].cmd \in {"glDrawArrays", "glDrawElements"}

----------------------------------------------------------------------------
(* SpecCap: a client that fills the three buffers with vertices, in any    *)
(* interleaving, and flushes.                                              *)

\* MAX_LINES_BATCH, MAX_TRIANGLES_BATCH and MAX_QUADS_BATCH of the build
CapBatch == 1

InitCap == InitWith([m \in Topologies |-> CapBatch], ScenOff)

NextCap ==
    \/ Call_rlBegin(Topologies)
    \/ Call_rlVertex3f(Positions, NDChoices)
    \/ Call_rlglDraw

SpecCap == InitCap /\ [][NextCap]_vars

\* C5: the rlVertex3f call that finds the active buffer at its capacity C
\* (the call number C+1) returns with vCounter = C, one overflow message
\* logged, the C stored positions as submitted and the counters of the other
\* two buffers unchanged
C5_OverflowDropsVertex ==
    [][(/\ lastOp' = "rlVertex3f"
        /\ ~useTempBuffer
        /\ ActiveBuffer.vCounter = Capacity(batch, currentDrawMode))
       => (/\ proc' = "running"
           /\ ActiveBuffer'.vCounter = Capacity(batch, currentDrawMode)
           /\ Len(errLog') = Len(errLog) + 1
           /\ ActiveBuffer'.vertices = ActiveBuffer.vertices
           /\ \A m \in Topologies \ {currentDrawMode} :
                 /\ Cur[BufferOf(m)].vCounter' = Cur[BufferOf(m)].vCounter
                 /\ Cur[BufferOf(m)].cCounter' = Cur[BufferOf(m)].cCounter
           /\ quads.tcCounter' = quads.tcCounter)
      ]_vars

----------------------------------------------------------------------------
(* SpecScenario: a client that, after a few calls of its own, draws three  *)
(* quads with the textures A, B, A: for each quad rlEnableTexture,         *)
(* rlBegin(RL_QUADS), four rlVertex3f and rlEnd. scen.k is the number of   *)
(* the next call of the scenario (0 before it starts), scen.pre counts the *)
(* calls made before it, scen.clean tells whether the staging buffer was   *)
(* empty when it started.                                                  *)

\* MAX_QUADS_BATCH of the build
ScenQuadsBatch == 4
\* calls the client makes before the scenario
ScenMaxPrelude == 3
\* the calls that draw one quad, and the textures of the quads drawn
QuadCalls == << "rlEnableTexture", "rlBegin", "rlVertex3f", "rlVertex3f",
               "rlVertex3f", "rlVertex3f", "rlEnd" >>
QuadTextures == << "A", "B", "A" >>

\* scen.k once the scenario has run
ScenDone == Len(QuadCalls) * Len(QuadTextures) + 1

\* the function the call number k of the scenario calls
ScenCall(k) == QuadCalls[((k - 1) % Len(QuadCalls)) + 1]

InitScenario ==
    InitWith([m \in Topologies |-> IF m = RL_QUADS THEN ScenQuadsBatch ELSE 1],
             [k |-> 0, pre |-> 0, A |-> 0, B |-> 0, clean |-> FALSE])

\* a call made before the scenario starts
Prelude(op, r) ==
    /\ scen.k = 0
    /\ scen.pre < ScenMaxPrelude
    /\ Step(op, r, [scen EXCEPT !.pre = @ + 1])

\* the ledger is as rlglInit and rlglDraw leave it
LedgerIsFresh ==
    /\ drawsCounter = 1
    /\ draws[0] = [textureId |-> whiteTexture, vertexCount |-> 0]

\* the texture of the quad the call number k belongs to
ScenTexture(k) == scen[QuadTextures[((k - 1) \div Len(QuadCalls)) + 1]]

\* the first call of the scenario, rlEnableTexture(A), on a fresh ledger
Scen_start ==
    /\ scen.k = 0
    /\ ScenCall(1) = "rlEnableTexture"
    /\ LedgerIsFresh
    /\ \E A \in TextureIds, B \in TextureIds, nd \in NDChoices :
          /\ A # B
          /\ StepArg("rlEnableTexture", A, rlEnableTexture(Cur, nd, A),
                  [k |-> 2, pre |-> scen.pre, A |-> A, B |-> B,
                   clean |-> tempBufferCount = 0])

Scen_rlEnableTexture ==
    /\ scen.k \in 2..(ScenDone - 1)
    /\ ScenCall(scen.k) = "rlEnableTexture"
    /\ \E nd \in NDChoices :
          StepArg("rlEnableTexture", ScenTexture(scen.k),
                  rlEnableTexture(Cur, nd, ScenTexture(scen.k)),
                  [scen EXCEPT !.k = @ + 1])

Scen_rlBegin ==
    /\ scen.k \in 2..(ScenDone - 1)
    /\ ScenCall(scen.k) = "rlBegin"
    /\ Step("rlBegin", rlBegin(Cur, RL_QUADS), [scen EXCEPT !.k = @ + 1])

Scen_rlVertex3f ==
    /\ scen.k \in 2..(ScenDone - 1)
    /\ ScenCall(scen.k) = "rlVertex3f"
    /\ \E nd \in NDChoices :
          Step("rlVertex3f", rlVertex3f(Cur, nd, 0), [scen EXCEPT !.k = @ + 1])

Scen_rlEnd ==
    /\ scen.k \in 2..(ScenDone - 1)
    /\ ScenCall(scen.k) = "rlEnd"
    /\ \E nd \in NDChoices :
          Step("rlEnd", rlEnd(Cur, nd), [scen EXCEPT !.k = @ + 1])

NextScenario ==
    \/ \E mode \in {RL_MODELVIEW, RL_PROJECTION} :
          Prelude("rlMatrixMode", rlMatrixMode(Cur, mode))
    \/ Prelude("rlPushMatrix", rlPushMatrix(Cur))
    \/ Prelude("rlPopMatrix", rlPopMatrix(Cur))
    \/ \E mode \in Topologies : Prelude("rlBegin", rlBegin(Cur, mode))
    \/ \E nd \in NDChoices : Prelude("rlVertex3f", rlVertex3f(Cur, nd, 0))
    \/ \E nd \in NDChoices : Prelude("rlEnd", rlEnd(Cur, nd))
    \/ Prelude("rlglDraw", rlglDraw(Cur))
    \/ Scen_start
    \/ Scen_rlEnableTexture
    \/ Scen_rlBegin
    \/ Scen_rlVertex3f
    \/ Scen_rlEnd

SpecScenario == InitScenario /\ [][NextScenario]_vars

\* the ledger the scenario is to leave: (A,4), (B,4), (A,4)
ThreeRuns ==
    /\ proc = "running"
    /\ drawsCounter = 3
    /\ DOMAIN draws = 0..2
    /\ draws[0] = [textureId |-> scen.A, vertexCount |-> 4]
    /\ draws[1] = [textureId |-> scen.B, vertexCount |-> 4]
    /\ draws[2] = [textureId |-> scen.A, vertexCount |-> 4]

\* C10 as stated: started on a freshly reset ledger, rlEnableTexture(A), 4
\* quad vertices, rlEnableTexture(B), 4 quad vertices, rlEnableTexture(A), 4
\* quad vertices leave drawsCounter = 3 and the entries (A,4), (B,4), (A,4)
C10_ThreeRunsFromFreshLedger == scen.k = ScenDone => ThreeRuns

\* C10, amended: the same, when no staged vertex is pending in tempBuffer
\* (tempBufferCount = 0) as the sequence starts
C10_ThreeRunsFromCleanStart == (scen.k = ScenDone /\ scen.clean) => ThreeRuns

\* the scenario run to its end from a start with the staging buffer empty
\* and A the white texture the fresh ledger already names
C10_Witness ==
    /\ scen.k = ScenDone
    /\ scen.clean
    /\ scen.A = whiteTexture
    /\ drawsCounter = 3

----------------------------------------------------------------------------
(* SpecFlush: a client that submits vertices of the three topologies in    *)
(* any interleaving, switches textures and flushes.                        *)

\* MAX_LINES_BATCH, MAX_TRIANGLES_BATCH and MAX_QUADS_BATCH of the build
FlushBatch == 1

\* the textures the client draws with
FlushTextures == {whiteTexture, whiteTexture + 1}

InitFlush == InitWith([m \in Topologies |-> FlushBatch], ScenOff)

NextFlush ==
    \/ Call_rlBegin(Topologies)
    \/ Call_rlVertex3f({0}, LedgerND)
    \/ Call_rlEnableTexture(FlushTextures, LedgerND)
    \/ Call_rlglDraw

SpecFlush == InitFlush /\ [][NextFlush]_vars

\* the places of the uploads and of the draws among the OpenGL commands c
UploadsIn(c) == {i \in DOMAIN c : c[i].cmd = "glBufferSubData"}
DrawsIn(c) == {i \in DOMAIN c : c[i].cmd \in {"glDrawArrays", "glDrawElements"}}

\* the counters, the ledger and the depth
BatchingState ==
    << lines, triangles, quads, draws, drawsCounter, currentDepth >>

\* C12: a rlglDraw called with lines.vCounter = triangles.vCounter =
\* quads.vCounter = 0 issues no glBufferSubData, no glDrawArrays and no
\* glDrawElements and leaves drawsCounter = 1 and draws[0].vertexCount = 0;
\* a rlglDraw that directly follows a rlglDraw changes no counter, no buffer,
\* no ledger entry and not the depth
C12_EmptyFlushIsIdle ==
    [][lastOp' = "rlglDraw" =>
          /\ (lines.vCounter = 0 /\ triangles.vCounter = 0 /\ quads.vCounter = 0)
                => /\ UploadsIn(glCalls') = {}
                   /\ DrawsIn(glCalls') = {}
                   /\ drawsCounter' = 1
                   /\ draws'[0].vertexCount = 0
          /\ lastOp = "rlglDraw" => BatchingState' = BatchingState
      ]_vars

\* a flush that found the three buffers empty, in lines mode
C12_Witness ==
    /\ lastOp = "rlglDraw"
    /\ currentDrawMode = RL_LINES
    /\ glCalls = << GL("glUseProgram", "", 0, 0) >>
    /\ drawsCounter = 1

\* the phase a draw command belongs to: 1 lines, 2 triangles, 3 quads
DrawPhase(g) ==
    IF g.cmd = "glDrawElements" THEN 3
    ELSE IF g.arg = "GL_LINES" THEN 1 ELSE 2

\* the texture bound when the command at place i of c is issued: the one of
\* the last glBindTexture before it, 0 when there is none
BoundTexture(c, i) ==
    LET binds == {j \in 1..(i - 1) : c[j].cmd = "glBindTexture"}
    IN  IF binds = {} THEN 0
        ELSE c[CHOOSE j \in binds : \A k \in binds : k <= j].n

\* the non-indexed draws of the primitive prim among the commands c
ArrayDraws(c, prim) ==
    {i \in DOMAIN c : c[i].cmd = "glDrawArrays" /\ c[i].arg = prim}

\* C19: in every rlglDraw each upload comes before each draw, no lines draw
\* follows a triangles or quads draw and no triangles draw follows a quads
\* draw, the counters, the ledger and the depth are reset at return, and a
\* non-empty lines (triangles) buffer gets exactly one glDrawArrays, of
\* vCounter vertices, issued with whiteTexture bound
C19_FlushPhasesInOrder ==
    [][lastOp' = "rlglDraw" =>
          LET c == glCalls'
          IN  /\ \A u \in UploadsIn(c), d \in DrawsIn(c) : u < d
              /\ \A d, e \in DrawsIn(c) :
                    d < e => DrawPhase(c[d]) <= DrawPhase(c[e])
              /\ BatchIsEmpty'
              /\ drawsCounter' = 1
              /\ draws'[0] = [textureId |-> whiteTexture, vertexCount |-> 0]
              /\ currentDepth' = 0
              /\ lines.vCounter > 0 =>
                    /\ Cardinality(ArrayDraws(c, "GL_LINES")) = 1
                    /\ \A i \in ArrayDraws(c, "GL_LINES") :
                          /\ c[i].n = lines.vCounter
                          /\ BoundTexture(c, i) = whiteTexture
              /\ triangles.vCounter > 0 =>
                    /\ Cardinality(ArrayDraws(c, "GL_TRIANGLES")) = 1
                    /\ \A i \in ArrayDraws(c, "GL_TRIANGLES") :
                          /\ c[i].n = triangles.vCounter
                          /\ BoundTexture(c, i) = whiteTexture
      ]_vars

\* a flush that drew lines, triangles and a quad, with two ledger entries
C19_Witness ==
    /\ lastOp = "rlglDraw"
    /\ ArrayDraws(glCalls, "GL_LINES") # {}
    /\ ArrayDraws(glCalls, "GL_TRIANGLES") # {}
    /\ \E i, j \in DOMAIN glCalls :
          /\ i # j
          /\ glCalls[i].cmd = "glDrawElements" /\ glCalls[i].n > 0
          /\ glCalls[j].cmd = "glDrawElements"
    /\ BatchIsEmpty

----------------------------------------------------------------------------
(* SpecMode: a client that submits vertices of the three topologies and    *)
(* changes the blend mode and the shader between them.                     *)

\* MAX_LINES_BATCH, MAX_TRIANGLES_BATCH and MAX_QUADS_BATCH of the build
ModeBatch == 1
\* the largest program id a shader of the client has
MaxShaderId == 2

\* the program ids of the shaders, the default one among them
ShaderIds == 1..MaxShaderId
\* the modes the client asks for: the three of the enum and one past them
BlendArgs == {BLEND_ALPHA, BLEND_ADDITIVE, BLEND_MULTIPLIED, BLEND_MULTIPLIED + 1}

InitMode == InitWith([m \in Topologies |-> ModeBatch], ScenOff)

NextMode ==
    \/ Call_rlBegin(Topologies)
    \/ Call_rlVertex3f({0}, LedgerND)
    \/ Call_SetBlendMode(BlendArgs)
    \/ Call_SetCustomShader(ShaderIds)
    \/ Call_SetDefaultShader
    \/ Call_rlglDraw

SpecMode == InitMode /\ [][NextMode]_vars

\* the commands c draw what the buffers hold: a non-indexed draw of the
\* vertices of a non-empty lines or triangles buffer, an indexed draw for
\* each ledger entry when quads is non-empty
DrawsTheBatch(c) ==
    /\ lines.vCounter > 0 =>
          \E i \in ArrayDraws(c, "GL_LINES") : c[i].n = lines.vCounter
    /\ triangles.vCounter > 0 =>
          \E i \in ArrayDraws(c, "GL_TRIANGLES") : c[i].n = triangles.vCounter
    /\ quads.vCounter > 0 =>
          Cardinality({i \in DOMAIN c : c[i].cmd = "glDrawElements"}) = drawsCounter

\* C13: a SetBlendMode(mode) call with mode # blendMode and mode one of
\* BLEND_ALPHA, BLEND_ADDITIVE, BLEND_MULTIPLIED uploads and draws what the
\* buffers hold before its one glBlendFunc, and returns with all counters 0
\* and blendMode = mode
C13_BlendChangeFlushesFirst ==
    [][(/\ lastOp' = "SetBlendMode"
        /\ lastArg' # blendMode
        /\ lastArg' \in {BLEND_ALPHA, BLEND_ADDITIVE, BLEND_MULTIPLIED})
       => LET c == glCalls'
              blends == {i \in DOMAIN c : c[i].cmd = "glBlendFunc"}
          IN  /\ blends = {Len(c)}
              /\ c[Len(c)] = BlendFunc(lastArg')[1]
              /\ DrawsTheBatch(c)
              /\ \A i \in UploadsIn(c) \cup DrawsIn(c) : i < Len(c)
              /\ BatchIsEmpty'
              /\ blendMode' = lastArg'
      ]_vars

\* a change of blend mode that drew triangles before it set the function
C13_Witness ==
    /\ lastOp = "SetBlendMode"
    /\ lastArg = BLEND_ADDITIVE
    /\ blendMode = BLEND_ADDITIVE
    /\ ArrayDraws(glCalls, "GL_TRIANGLES") # {}
    /\ BatchIsEmpty

\* C14: a SetCustomShader(shader) call with a program other than the one of
\* currentShader, and a SetDefaultShader call made while currentShader is
\* not the default shader, draw what the buffers hold with the program that
\* was active before the call (every glUseProgram of a program names it, and
\* precedes the draws), and return with all counters 0 and the new program
\* in currentShader; a SetDefaultShader call made while the default shader
\* is active changes nothing, as SetCustomShader(defaultShader) does
C14_ShaderChangeFlushesFirst ==
    [][lastOp' \in {"SetCustomShader", "SetDefaultShader"} =>
          LET id == IF lastOp' = "SetDefaultShader" THEN defaultShaderId
                    ELSE lastArg'
              c == glCalls'
              uses == {i \in DOMAIN c : c[i].cmd = "glUseProgram" /\ c[i].n # 0}
          IN  IF id # currentShader
              THEN /\ \A i \in uses : c[i].n = currentShader
                   /\ DrawsIn(c) # {} => uses # {}
                   /\ \A i \in uses, d \in DrawsIn(c) : i < d
                   /\ DrawsTheBatch(c)
                   /\ BatchIsEmpty'
                   /\ currentShader' = id
              ELSE /\ c = << >>
                   /\ BatchingState' = BatchingState
                   /\ currentShader' = currentShader
      ]_vars

\* a return to the default shader that drew lines with the custom one
C14_Witness ==
    /\ lastOp = "SetDefaultShader"
    /\ currentShader = defaultShaderId
    /\ \E i \in DOMAIN glCalls :
          /\ glCalls[i].cmd = "glUseProgram"
          /\ glCalls[i].n \notin {0, defaultShaderId}
    /\ ArrayDraws(glCalls, "GL_LINES") # {}
    /\ BatchIsEmpty

----------------------------------------------------------------------------
(* SpecMatrix: a client that selects, translates, pushes and pops the      *)
(* matrices.                                                               *)

InitMatrix == InitWith([m \in Topologies |-> 1], ScenOff)

NextMatrix ==
    \/ Call_rlMatrixMode({RL_MODELVIEW, RL_PROJECTION})
    \/ Call_rlTranslatef(Positions \ {0})
    \/ Call_rlPushMatrix
    \/ Call_rlPopMatrix

SpecMatrix == InitMatrix /\ [][NextMatrix]_vars

\* C20: a rlPushMatrix call logs an error exactly when MATRIX_STACK_SIZE
\* matrices are on the stack before it, and in every case saves the current
\* matrix in stack[stackCounter], sets the current matrix to the identity and
\* increments stackCounter
C20_PushLogsOnlyBeyondDepth ==
    [][lastOp' = "rlPushMatrix" =>
          /\ Len(errLog') > Len(errLog) <=> stackCounter = MATRIX_STACK_SIZE
          /\ stackCounter' = stackCounter + 1
          /\ stack'[stackCounter] = CurrentMatrix(Cur)
          /\ (IF currentMatrix = "projection" THEN projection' ELSE modelview')
                = MatrixIdentity
      ]_vars

----------------------------------------------------------------------------
(* SpecStaged: a client that pushes and translates the modelview matrix    *)
(* and stages the points of its shapes, one topology per batch.            *)

\* MAX_LINES_BATCH, MAX_TRIANGLES_BATCH and MAX_QUADS_BATCH of the build
StagedBatch == 1
\* rlEnd calls per batch
StagedMaxDepth == 2
\* the points the client stages for one shape at most
StagedMax == TEMP_VERTEX_BUFFER_SIZE - 3

InitStaged == InitWith([m \in Topologies |-> StagedBatch], ScenOff)

\* the client submits its points while the staging flag is set
Staged_rlVertex3f ==
    /\ useTempBuffer
    /\ tempBufferCount < StagedMax
    /\ Call_rlVertex3f(Positions, LedgerND)

NextStaged ==
    \/ Call_rlMatrixMode({RL_MODELVIEW})
    \/ Call_rlPushMatrix
    \/ Call_rlTranslatef(Positions \ {0})
    \/ Attr_rlBegin
    \/ Staged_rlVertex3f
    \/ Call_rlEnd(LedgerND, StagedMaxDepth)
    \/ Call_rlglDraw

SpecStaged == InitStaged /\ [][NextStaged]_vars

\* C15: a rlEnd called with useTempBuffer set, n points staged and room for
\* n vertices in the buffer of the active topology leaves that buffer with
\* its vertices followed by the n staged points in their order, each
\* transformed by the current matrix, the other buffers as they were,
\* tempBufferCount = 0 and useTempBuffer clear
C15_EndReplaysStagedPoints ==
    [][(/\ lastOp' = "rlEnd"
        /\ useTempBuffer
        /\ ActiveBuffer.vCounter + tempBufferCount
              <= Capacity(batch, currentDrawMode))
       => LET n == tempBufferCount
              v == ActiveBuffer.vCounter
          IN  /\ ActiveBuffer'.vCounter = v + n
              /\ \A i \in 0..(v - 1) :
                    ActiveBuffer'.vertices[i] = ActiveBuffer.vertices[i]
              /\ \A i \in 0..(n - 1) :
                    ActiveBuffer'.vertices[v + i]
                       = VectorTransform(tempBuffer[i], CurrentMatrix(Cur))
              /\ \A m \in Topologies \ {currentDrawMode} :
                    Cur[BufferOf(m)].vCounter' = Cur[BufferOf(m)].vCounter
              /\ tempBufferCount' = 0
              /\ useTempBuffer' = FALSE
      ]_vars

\* the second rlEnd of a batch, under a translated matrix, that left the
\* replayed points of two shapes in the buffer, not all equal
C15_Witness ==
    /\ lastOp = "rlEnd"
    /\ currentDepth = 2
    /\ ~useTempBuffer
    /\ tempBufferCount = 0
    /\ CurrentMatrix(Cur) # MatrixIdentity
    /\ ActiveBuffer.vCounter = 3
    /\ ActiveBuffer.vertices[1] # ActiveBuffer.vertices[2]

----------------------------------------------------------------------------
(* SpecSubmit: a client that submits points with rlVertex3f, rlVertex2f    *)
(* and rlVertex2i, staged after a push of the modelview matrix and direct  *)
(* otherwise, one topology per batch.                                      *)

\* MAX_LINES_BATCH, MAX_TRIANGLES_BATCH and MAX_QUADS_BATCH of the build
SubmitBatch == 1
\* rlEnd calls per batch
SubmitMaxDepth == 1

InitSubmit == InitWith([m \in Topologies |-> SubmitBatch], ScenOff)

NextSubmit ==
    \/ Call_rlMatrixMode({RL_MODELVIEW})
    \/ Call_rlPushMatrix
    \/ Attr_rlBegin
    \/ Call_rlVertex3f({0}, LedgerND)
    \/ Call_rlVertex2f({0}, LedgerND)
    \/ Call_rlVertex2i({0}, LedgerND)
    \/ Call_rlEnd(LedgerND, SubmitMaxDepth)
    \/ Call_rlglDraw

SpecSubmit == InitSubmit /\ [][NextSubmit]_vars

\* C16: a rlVertex3f, rlVertex2f or rlVertex2i call made while useTempBuffer
\* is set leaves tempBufferCount one higher and the three vCounters and the
\* ledger as they were; made while it is clear, it leaves tempBufferCount
\* and the two buffers currentDrawMode does not select as they were
C16_VertexGoesToOnePlace ==
    [][lastOp' \in {"rlVertex3f", "rlVertex2f", "rlVertex2i"} =>
          IF useTempBuffer
          THEN /\ tempBufferCount' = tempBufferCount + 1
               /\ lines'.vCounter = lines.vCounter
               /\ triangles'.vCounter = triangles.vCounter
               /\ quads'.vCounter = quads.vCounter
               /\ draws' = draws
               /\ drawsCounter' = drawsCounter
          ELSE /\ tempBufferCount' = tempBufferCount
               /\ \A m \in Topologies \ {currentDrawMode} :
                     Cur[BufferOf(m)]' = Cur[BufferOf(m)]
      ]_vars

----------------------------------------------------------------------------
(* SpecTex: a client that submits quad vertices and texcoords, ends shapes *)
(* and flushes.                                                            *)

\* MAX_QUADS_BATCH of the build
TexQuadsBatch == 1
\* rlEnd calls per batch
TexMaxDepth == 2

InitTex ==
    InitWith([m \in Topologies |-> IF m = RL_QUADS THEN TexQuadsBatch ELSE 1],
             ScenOff)

NextTex ==
    \/ Call_rlBegin({RL_QUADS})
    \/ Call_rlVertex3f({0}, LedgerND)
    \/ Call_rlTexCoord2f({"uv"}, LedgerND)
    \/ Call_rlEnd(LedgerND, TexMaxDepth)
    \/ Call_rlglDraw

SpecTex == InitTex /\ [][NextTex]_vars

\* a rlEnd call in quads mode that finds texcoords missing and one written
QuadTexCoordsMissing ==
    /\ lastOp' = "rlEnd"
    /\ currentDrawMode = RL_QUADS
    /\ 1 <= quads.tcCounter
    /\ quads.tcCounter < quads.vCounter

----------------------------------------------------------------------------
(* SpecDepth: a client that draws lines in the plane with rlVertex2f and   *)
(* rlVertex2i and lines with a depth of their own with rlVertex3f, staged  *)
(* after a push of the modelview matrix and direct otherwise, and changes  *)
(* the blend mode between them.                                            *)

\* MAX_LINES_BATCH, MAX_TRIANGLES_BATCH and MAX_QUADS_BATCH of the build
DepthBatch == 1
\* rlEnd calls per batch
DepthMaxEnds == 1

\* the position the client passes to rlVertex3f: behind every shape of the
\* plane
DepthPositions == {Pos(0, DepthMaxEnds + 1)}

InitDepth == InitWith([m \in Topologies |-> DepthBatch], ScenOff)

\* the client submits the points of lines, and stages one point at most
Depth_lines ==
    /\ currentDrawMode = RL_LINES
    /\ useTempBuffer => tempBufferCount = 0

NextDepth ==
    \/ Call_rlMatrixMode({RL_MODELVIEW})
    \/ stackCounter = 0 /\ Call_rlPushMatrix
    \/ Call_rlBegin({RL_LINES})
    \/ Depth_lines /\ Call_rlVertex3f(DepthPositions, LedgerND)
    \/ Depth_lines /\ Call_rlVertex2f({0}, LedgerND)
    \/ Depth_lines /\ Call_rlVertex2i({0}, LedgerND)
    \/ Call_rlEnd(LedgerND, DepthMaxEnds)
    \/ Call_SetBlendMode({BLEND_ALPHA, BLEND_ADDITIVE})
    \/ Call_rlglDraw

SpecDepth == InitDepth /\ [][NextDepth]_vars

\* the call that ends ran rlglDraw, which ends with glUseProgram(0)
FlushRan ==
    \E i \in DOMAIN glCalls' :
        glCalls'[i].cmd = "glUseProgram" /\ glCalls'[i].n = 0

\* currentDepth counts the rlEnd calls since the last rlglDraw: it is one
\* higher after a rlEnd, at its start value after a call that ran rlglDraw,
\* and unchanged by every other call
DepthCountsEnds ==
    IF proc' # "running" THEN TRUE
    ELSE IF lastOp' = "rlEnd" THEN currentDepth' = currentDepth + 1
    ELSE IF FlushRan THEN currentDepth' = 0
    ELSE currentDepth' = currentDepth

\* the point a rlVertex2f or rlVertex2i call submits has the z currentDepth
PlaneVertexGetsDepth ==
    (lastOp' \in {"rlVertex2f", "rlVertex2i"} /\ proc' = "running") =>
        IF useTempBuffer
        THEN ZOf(tempBuffer'[tempBufferCount]) = currentDepth
        ELSE ZOf(ActiveBuffer'.vertices[ActiveBuffer.vCounter]) = currentDepth

\* the z of the vertices the three buffers hold
BatchDepths ==
    UNION { {ZOf(Cur[BufferOf(m)].vertices[i]) :
                i \in 0..(Cur[BufferOf(m)].vCounter - 1)} : m \in Topologies }

\* C18: currentDepth is the number of rlEnd calls since the last rlglDraw
\* (in steps of 1/20000 above -1.0), rlVertex2f and rlVertex2i give their
\* point the z currentDepth, and when a shape ends every vertex of the batch
\* has a z below the new currentDepth, the least z a rlVertex2f or
\* rlVertex2i of a later shape of the batch gives
C18_LaterShapeIsAboveTheBatch ==
    [][/\ DepthCountsEnds
       /\ PlaneVertexGetsDepth
       /\ (lastOp' = "rlEnd" /\ proc' = "running") =>
              \A z \in BatchDepths' : z < currentDepth'
      ]_vars

\* C18, as the code has it: currentDepth is the number of rlEnd calls since
\* the last rlglDraw, explicit or run by SetBlendMode, and rlVertex2f and
\* rlVertex2i give their point the z currentDepth: the z they give grows
\* from each shape to the next between two rlglDraw
C18_DepthCountsShapes ==
    [][/\ DepthCountsEnds
       /\ PlaneVertexGetsDepth
       /\ (lastOp' = "rlEnd" /\ proc' = "running") => currentDepth' > currentDepth
      ]_vars

\* a rlVertex2f that put a vertex of the second shape of a batch, one step
\* deep, behind a vertex of the first
C18_Witness ==
    /\ lastOp = "rlVertex2f"
    /\ ~useTempBuffer
    /\ currentDepth = 1
    /\ lines.vCounter = 2
    /\ ZOf(lines.vertices[0]) = 0
    /\ ZOf(lines.vertices[1]) = 1

----------------------------------------------------------------------------
(* SpecShader: a client that loads shaders from files, makes the shader it *)
(* got or the default one active, and draws lines.                         *)

\* MAX_LINES_BATCH, MAX_TRIANGLES_BATCH and MAX_QUADS_BATCH of the build
ShaderBatch == 1

\* what a shader file is: absent, of length 0, or a text
ShaderFiles == {"missing", "empty", "text"}
\* what OpenGL answers to one LoadShaderProgram; the program names it gives
\* are not the one of the default shader, which is alive
GLAnswers ==
    [fsOk : BOOLEAN, linkOk : BOOLEAN,
     program : (0..MaxShaderId) \ {defaultShaderId}]

InitShader == InitWith([m \in Topologies |-> ShaderBatch], ScenOff)

\* the client makes the shader it just loaded active
Shader_SetCustomShader ==
    /\ lastOp = "LoadShader"
    /\ Call_SetCustomShader({lastRet})

NextShader ==
    \/ Call_LoadShader(ShaderFiles, GLAnswers)
    \/ Shader_SetCustomShader
    \/ Call_SetDefaultShader
    \/ Call_rlBegin({RL_LINES})
    \/ Call_rlVertex3f({0}, LedgerND)
    \/ Call_rlglDraw

SpecShader == InitShader /\ [][NextShader]_vars

\* the LoadShader call that ends could not read one of its files, or its
\* LoadShaderProgram returned 0: no program was created, or the program did
\* not link
ShaderLoadFailed ==
    \/ ReadTextFile(lastArg'.vs) = "NULL"
    \/ ReadTextFile(lastArg'.fs) = "NULL"
    \/ lastArg'.gl.program = 0
    \/ ~lastArg'.gl.linkOk

\* C21: a LoadShader call that cannot read one of its two files, or whose
\* LoadShaderProgram returns 0, as it does whenever the program does not
\* link, returns the default shader; no LoadShader call returns a shader of
\* id 0
C21_LoadFailureGivesDefaultShader ==
    [][lastOp' = "LoadShader" =>
          /\ ShaderLoadFailed => lastRet' = defaultShaderId
          /\ lastRet' # 0
      ]_vars

\* a LoadShader that read its two files, got a program that did not link
\* and returned the default shader
C21_Witness ==
    /\ lastOp = "LoadShader"
    /\ ReadTextFile(lastArg.vs) # "NULL"
    /\ ReadTextFile(lastArg.fs) # "NULL"
    /\ lastArg.gl.program # 0
    /\ ~lastArg.gl.linkOk
    /\ lastRet = defaultShaderId
    /\ \E i \in DOMAIN glCalls : glCalls[i].cmd = "glDeleteProgram"

----------------------------------------------------------------------------
(* The element buffer of the quads.                                        *)

IndexQuadsBatch == 2
IndexMaxDepth == 2

InitIndex ==
    InitWith([m \in Topologies |-> IF m = RL_QUADS THEN IndexQuadsBatch ELSE 1],
             ScenOff)

\* a client that submits the vertices of quads, ends shapes and flushes
NextIndex ==
    \/ Call_rlBegin({RL_QUADS})
    \/ Call_rlVertex3f({0}, LedgerND)
    \/ Call_rlEnd(LedgerND, IndexMaxDepth)
    \/ Call_rlglDraw

SpecIndex == InitIndex /\ [][NextIndex]_vars

\* C22: as long as no store has left its array, quads.indices holds for
\* every quad k below MAX_QUADS_BATCH the six elements 4k, 4k+1, 4k+2, 4k,
\* 4k+2, 4k+3 and nothing else, whatever was submitted, ended or drawn
C22_QuadIndicesAreFixed ==
    memFault = {} =>
        /\ DOMAIN indices = 0 .. 6 * batch[RL_QUADS] - 1
        /\ \A k \in 0 .. batch[RL_QUADS] - 1 :
               << indices[6 * k], indices[6 * k + 1], indices[6 * k + 2],
                  indices[6 * k + 3], indices[6 * k + 4], indices[6 * k + 5] >>
               = << 4 * k, 4 * k + 1, 4 * k + 2, 4 * k, 4 * k + 2, 4 * k + 3 >>

\* a flush has just drawn two quads through the elements of both
C22_Witness ==
    /\ memFault = {}
    /\ batch[RL_QUADS] >= 2
    /\ indices[6] = 4
    /\ indices[11] = 7
    /\ lastOp = "rlglDraw"
    /\ \E i \in DOMAIN glCalls :
           glCalls[i].cmd = "glDrawElements" /\ glCalls[i].n = 12

----------------------------------------------------------------------------
(* What one attribute call touches.                                        *)

\* everything but the three primitive buffers
BesideTheBuffers ==
    << proc, memFault, indices, draws, drawsCounter, currentDepth, tempBuffer,
       tempBufferCount, useTempBuffer, currentDrawMode, errLog >>

\* C23: a rlTexCoord2f call in lines or triangles mode changes no counter
\* and no array, and in quads mode adds one to quads.tcCounter and changes
\* nothing but the texcoords; a rlColor4ub call adds one to the cCounter of
\* the buffer of currentDrawMode and changes nothing but its colours; no
\* call writes outside the array it fills
C23_AttributeCallTouchesOneCounter ==
    [][/\ lastOp' = "rlTexCoord2f" =>
            /\ BesideTheBuffers' = BesideTheBuffers
            /\ lines' = lines
            /\ triangles' = triangles
            /\ IF currentDrawMode = RL_QUADS
               THEN quads' = [quads EXCEPT !.tcCounter = @ + 1,
                                           !.texcoords = quads'.texcoords]
               ELSE quads' = quads
       /\ lastOp' = "rlColor4ub" =>
            /\ BesideTheBuffers' = BesideTheBuffers
            /\ \A m \in Topologies :
                   LET f == BufferOf(m)
                   IN  IF m = currentDrawMode
                       THEN Cur[f]' = [Cur[f] EXCEPT !.cCounter = @ + 1,
                                                     !.colors = Cur[f].colors']
                       ELSE Cur[f]' = Cur[f]
      ]_vars

----------------------------------------------------------------------------
(* What a flush uploads.                                                   *)

\* the arrays of the buffer of topology m that are sent to the GPU
UploadedArrays(m) ==
    {BufferOf(m) \o ".vertices", BufferOf(m) \o ".colors"}
    \cup (IF m = RL_QUADS THEN {"quads.texcoords"} ELSE {})

\* C24: a rlglDraw uploads the arrays of a buffer if and only if the
\* buffer's vCounter is above 0, each of them once, at offset 0 and with as
\* many elements as the buffer's vCounter
C24_FlushUploadsUsedPrefix ==
    [][lastOp' = "rlglDraw" =>
          \A m \in Topologies :
              LET b == Cur[BufferOf(m)]
                  ups == {i \in UploadsIn(glCalls') :
                              glCalls'[i].arg \in UploadedArrays(m)}
              IN  IF b.vCounter > 0
                  THEN /\ \A a \in UploadedArrays(m) :
                              Cardinality({i \in ups : glCalls'[i].arg = a}) = 1
                       /\ \A i \in ups : /\ glCalls'[i].offset = 0
                                         /\ glCalls'[i].n = b.vCounter
                  ELSE ups = {}
      ]_vars

----------------------------------------------------------------------------
(* A shape without any colour.                                             *)

\* C25: a rlEnd called with N >= 1 vertices and no colour in the active
\* buffer leaves cCounter = N and N colours of which none is the content of
\* the memory before the array
C25_ColourlessShapeGetsDefault ==
    [][LET b == ActiveBuffer
           N == b.vCounter
       IN  (/\ lastOp' = "rlEnd"
            /\ ~useTempBuffer
            /\ b.cCounter = 0
            /\ N >= 1)
           => /\ ActiveBuffer'.cCounter = N
              /\ \A i \in 0 .. N - 1 : ActiveBuffer'.colors[i] # "junk"
      ]_vars

----------------------------------------------------------------------------
(* Quads drawn with one texture.                                           *)

RebindQuadsBatch == 2
RebindMaxDepth == 1

InitRebind ==
    InitWith([m \in Topologies |-> IF m = RL_QUADS THEN RebindQuadsBatch ELSE 1],
             ScenOff)

\* the client binds the active texture at any moment and another texture
\* between two quads
Rebind_rlEnableTexture ==
    \E id \in FlushTextures :
        /\ id = draws[drawsCounter - 1].textureId \/ quads.vCounter % 4 = 0
        /\ Call_rlEnableTexture({id}, LedgerND)

NextRebind ==
    \/ Call_rlBegin({RL_QUADS})
    \/ Call_rlVertex3f({0}, LedgerND)
    \/ Call_rlEnd(LedgerND, RebindMaxDepth)
    \/ Rebind_rlEnableTexture
    \/ Call_rlglDraw

SpecRebind == InitRebind /\ [][NextRebind]_vars

\* the texture of the last ledger entry
ActiveTexture == draws[drawsCounter - 1].textureId

\* C26: a rlEnableTexture(id) that follows a rlEnableTexture(id) leaves the
\* ledger as it is; a rlEnableTexture of the active texture, a rlBegin, a
\* rlVertex3f and a rlEnd leave drawsCounter and every entry as they are,
\* but for the count of the last entry, which grows by the number of quad
\* vertices retained: quads submitted under one texture, with or without
\* rlEnableTexture of that texture between them, fill one entry, 4 per quad
C26_RebindIsFree ==
    [][/\ (/\ lastOp = "rlEnableTexture"
           /\ lastOp' = "rlEnableTexture"
           /\ lastArg' = lastArg)
          => /\ draws' = draws
             /\ drawsCounter' = drawsCounter
       /\ (\/ lastOp' \in {"rlBegin", "rlVertex3f", "rlEnd"}
           \/ lastOp' = "rlEnableTexture" /\ lastArg' = ActiveTexture)
          => /\ drawsCounter' = drawsCounter
             /\ draws' = [draws EXCEPT ![drawsCounter - 1].vertexCount =
                              @ + quads'.vCounter - quads.vCounter]
      ]_vars

\* the active texture is bound again after two quads, which fill one entry
C26_Witness ==
    /\ lastOp = "rlEnableTexture"
    /\ lastArg = ActiveTexture
    /\ lastArg # whiteTexture
    /\ drawsCounter = 1
    /\ draws[0].vertexCount = 8
    /\ quads.vCounter = 8

----------------------------------------------------------------------------
(* The ledger between two flushes.                                         *)

AppendQuadsBatch == 1
AppendMaxDepth == 1

\* the observer: the texture the client has bound last, the default one
\* after rlglInit and after a flush, and the texture that was bound when each
\* quad vertex of the batch was retained, in the order of quads.vertices
InitAppend ==
    InitWith([m \in Topologies |-> IF m = RL_QUADS THEN AppendQuadsBatch ELSE 1],
             [bound |-> whiteTexture, tex |-> << >>])

\* the observer after a call that takes the program to the state r
Retained(r) ==
    [scen EXCEPT !.tex = @ \o [k \in 1 .. r.quads.vCounter - quads.vCounter |->
                                  scen.bound]]

Append_rlBegin == Step("rlBegin", rlBegin(Cur, RL_QUADS), scen)

Append_rlVertex3f ==
    \E nd \in LedgerND :
        LET r == rlVertex3f(Cur, nd, 0) IN Step("rlVertex3f", r, Retained(r))

Append_rlEnd ==
    /\ currentDepth < AppendMaxDepth
    /\ \E nd \in LedgerND :
          LET r == rlEnd(Cur, nd) IN Step("rlEnd", r, Retained(r))

Append_rlEnableTexture ==
    \E id \in FlushTextures, nd \in LedgerND :
        StepArg("rlEnableTexture", id, rlEnableTexture(Cur, nd, id),
                [scen EXCEPT !.bound = id])

Append_rlglDraw ==
    Step("rlglDraw", rlglDraw(Cur), [bound |-> whiteTexture, tex |-> << >>])

NextAppend ==
    \/ Append_rlBegin
    \/ Append_rlVertex3f
    \/ Append_rlEnd
    \/ Append_rlEnableTexture
    \/ Append_rlglDraw

SpecAppend == InitAppend /\ [][NextAppend]_vars

\* every quad vertex of the range of entry i was retained under the texture
\* of entry i
EntryCoversItsRun(i) ==
    \A v \in LedgerSum(i) .. LedgerSum(i) + draws[i].vertexCount - 1 :
        /\ v + 1 \in DOMAIN scen.tex
        /\ scen.tex[v + 1] = draws[i].textureId

\* C27: a call other than rlglDraw leaves every entry below the last one as
\* it is and does not decrease drawsCounter; and in every state entry i
\* counts the quad vertices from the sum of the counts before it on, all
\* retained while its texture was the active one, the entries together
\* counting every quad vertex
C27_LedgerIsAppendOnly ==
    [][/\ lastOp' # "rlglDraw" =>
            /\ drawsCounter' >= drawsCounter
            /\ \A i \in 0 .. drawsCounter - 2 : draws'[i] = draws[i]
       /\ (/\ Len(scen.tex) = quads.vCounter
           /\ LedgerSum(drawsCounter) = quads.vCounter
           /\ \A i \in 0 .. drawsCounter - 1 : EntryCoversItsRun(i))'
      ]_vars

\* three runs of two textures, the second of two vertices
C27_Witness ==
    /\ proc = "running"
    /\ drawsCounter = 3
    /\ draws[0].vertexCount = 1
    /\ draws[1].vertexCount = 2
    /\ draws[2].vertexCount = 1
    /\ scen.tex = << draws[0].textureId, draws[1].textureId,
                     draws[1].textureId, draws[2].textureId >>
    /\ draws[0].textureId # draws[1].textureId

----------------------------------------------------------------------------
(* The capacity of the primitive buffers.                                  *)

LimitBatch == 1
LimitMaxDepth == 2

InitLimit == InitWith([m \in Topologies |-> LimitBatch], ScenOff)

\* the client stages a few points per shape at most
Limit_rlVertex3f ==
    /\ useTempBuffer => tempBufferCount < StagedMax
    /\ Call_rlVertex3f({0}, LedgerND)

\* a client that submits the points of its shapes directly and, after a push
\* of the modelview matrix, through the staging buffer
NextLimit ==
    \/ Call_rlMatrixMode({RL_MODELVIEW})
    \/ stackCounter = 0 /\ Call_rlPushMatrix
    \/ Attr_rlBegin
    \/ Limit_rlVertex3f
    \/ Call_rlEnd(LedgerND, LimitMaxDepth)
    \/ Call_rlglDraw

SpecLimit == InitLimit /\ [][NextLimit]_vars

\* the counters of the primitive buffers, the staging count and the ledger
CountersAndLedger ==
    << lines.vCounter, lines.cCounter, triangles.vCounter, triangles.cCounter,
       quads.vCounter, quads.cCounter, quads.tcCounter, tempBufferCount,
       draws, drawsCounter >>

\* C28: in every state the vCounter of each buffer is at most the vertex
\* capacity of its topology; a rlVertex3f call that finds the active buffer
\* full changes no counter and no ledger entry; and a rlEnd that replays
\* more staged points than the active buffer has room for fills it to its
\* capacity, the ledger counting the quad vertices retained and nothing else
\* changing
C28_CapacityIsHardLimit ==
    [][/\ \A m \in Topologies :
              Cur[BufferOf(m)].vCounter' <= Capacity(batch, m)
       /\ (/\ lastOp' = "rlVertex3f"
           /\ ~useTempBuffer
           /\ ActiveBuffer.vCounter = Capacity(batch, currentDrawMode))
          => CountersAndLedger' = CountersAndLedger
       /\ (/\ lastOp' = "rlEnd"
           /\ useTempBuffer
           /\ ActiveBuffer.vCounter + tempBufferCount
                 > Capacity(batch, currentDrawMode))
          => /\ ActiveBuffer'.vCounter = Capacity(batch, currentDrawMode)
             /\ \A m \in Topologies \ {currentDrawMode} :
                    Cur[BufferOf(m)]' = Cur[BufferOf(m)]
             /\ ActiveBuffer'.cCounter = ActiveBuffer.cCounter
             /\ quads.tcCounter' = quads.tcCounter
             /\ drawsCounter' = drawsCounter
             /\ draws' = [draws EXCEPT ![drawsCounter - 1].vertexCount =
                              @ + quads'.vCounter - quads.vCounter]
      ]_vars

\* a rlEnd has replayed staged points into the quads until they were full
C28_Witness ==
    /\ lastOp = "rlEnd"
    /\ currentDrawMode = RL_QUADS
    /\ quads.vCounter = Capacity(batch, RL_QUADS)
    /\ tempBufferCount = 2
    /\ draws[drawsCounter - 1].vertexCount = quads.vCounter
    /\ Len(errLog) = 1

----------------------------------------------------------------------------
(* The arguments of SetBlendMode.                                          *)

\* int mode: the three modes of the enum, the integer above and the one below
BlendInts == BlendArgs \cup {BLEND_ALPHA - 1}

\* a client that submits vertices and passes any integer to SetBlendMode
NextBlend ==
    \/ Call_rlBegin(Topologies)
    \/ Call_rlVertex3f({0}, LedgerND)
    \/ Call_SetBlendMode(BlendInts)
    \/ Call_rlglDraw

SpecBlend == InitMode /\ [][NextBlend]_vars

\* C29: blendMode is BLEND_ALPHA, BLEND_ADDITIVE or BLEND_MULTIPLIED in
\* every state, and a SetBlendMode(mode) with mode none of the three, or
\* with mode = blendMode, sends no command, draws nothing and leaves
\* blendMode, the counters, the ledger and the depth as they are
C29_BlendModeStaysEnumerated ==
    [][/\ blendMode' \in {BLEND_ALPHA, BLEND_ADDITIVE, BLEND_MULTIPLIED}
       /\ (/\ lastOp' = "SetBlendMode"
           /\ \/ lastArg' \notin {BLEND_ALPHA, BLEND_ADDITIVE, BLEND_MULTIPLIED}
              \/ lastArg' = blendMode)
          => /\ glCalls' = << >>
             /\ blendMode' = blendMode
             /\ BatchingState' = BatchingState
      ]_vars

----------------------------------------------------------------------------
(* The quads a flush draws.                                                *)

RECURSIVE IndexCountOf(_)
\* the sum of the index counts of the indexed draws d
IndexCountOf(d) ==
    IF d = << >> THEN 0 ELSE Head(d).count + IndexCountOf(Tail(d))

\* C30: a rlglDraw draws the indices of every complete quad the buffer
\* holds, (quads.vCounter / 4) * 6 of them over its indexed draws, and the
\* six indices of quad k in a draw that binds the texture under which the
\* four vertices of quad k were retained, wherever in the submission the
\* client has bound its textures
C30_FlushDrawsEveryQuad ==
    [][lastOp' = "rlglDraw" =>
          LET d == IndexedDraws(glCalls')
          IN  /\ IndexCountOf(d) = (quads.vCounter \div 4) * 6
              /\ \A k \in 0 .. (quads.vCounter \div 4) - 1 :
                     \E n \in DOMAIN d :
                         /\ d[n].offset <= 6 * k
                         /\ 6 * k + 6 <= d[n].offset + d[n].count
                         /\ \A j \in 1 .. 4 :
                                scen.tex[4 * k + j] = d[n].textureId
      ]_vars

----------------------------------------------------------------------------
(* The staging flag.                                                       *)

FlagBatch == 1
FlagMaxDepth == 1

\* the observer: whether a rlPushMatrix called in RL_MODELVIEW mode has
\* returned since the last rlEnd
InitFlag == InitWith([m \in Topologies |-> FlagBatch], [pushed |-> FALSE])

Flag_rlPushMatrix ==
    LET r == rlPushMatrix(Cur)
    IN  Step("rlPushMatrix", r,
             [pushed |-> \/ scen.pushed
                         \/ currentMatrixMode = RL_MODELVIEW /\ Running(r)])

\* the client draws lines and stages one point per shape
Flag_rlVertex3f ==
    /\ currentDrawMode = RL_LINES
    /\ tempBufferCount = 0
    /\ \E nd \in LedgerND :
          StepArg("rlVertex3f", 1, rlVertex3f(Cur, nd, 1), scen)

Flag_rlEnd ==
    /\ currentDepth < FlagMaxDepth
    /\ \E nd \in LedgerND : Step("rlEnd", rlEnd(Cur, nd), [pushed |-> FALSE])

\* a client that selects, pushes, pops and translates the matrices, each
\* matrix once, and draws lines
NextFlag ==
    \/ Call_rlMatrixMode({RL_MODELVIEW, RL_PROJECTION})
    \/ Flag_rlPushMatrix
    \/ Call_rlPopMatrix
    \/ CurrentMatrix(Cur) = MatrixIdentity /\ Call_rlTranslatef({1})
    \/ Call_rlBegin({RL_LINES})
    \/ Flag_rlVertex3f
    \/ Flag_rlEnd
    \/ Call_rlglDraw

SpecFlag == InitFlag /\ [][NextFlag]_vars

\* the positions the three primitive buffers hold
BufferedVertices == << lines.vertices, triangles.vertices, quads.vertices >>

\* C31: useTempBuffer becomes true only in a rlPushMatrix called in
\* RL_MODELVIEW mode and false only in a rlEnd; a rlPushMatrix in another
\* mode, a rlPopMatrix, a rlBegin and a rlglDraw leave it as it is; in every
\* state it is true exactly when such a push has returned since the last
\* rlEnd; and without such a push a vertex is not staged and a rlEnd
\* transforms nothing
C31_StagingFlagLifetime ==
    [][/\ (~useTempBuffer /\ useTempBuffer')
          => lastOp' = "rlPushMatrix" /\ currentMatrixMode = RL_MODELVIEW
       /\ (useTempBuffer /\ ~useTempBuffer') => lastOp' = "rlEnd"
       /\ (\/ lastOp' = "rlPushMatrix" /\ currentMatrixMode # RL_MODELVIEW
           \/ lastOp' \in {"rlPopMatrix", "rlBegin", "rlglDraw"})
          => useTempBuffer' = useTempBuffer
       /\ useTempBuffer' <=> scen'.pushed
       /\ (lastOp' = "rlVertex3f" /\ ~scen.pushed)
          => /\ tempBufferCount' = tempBufferCount
             /\ Running(Cur') =>
                   ActiveBuffer'.vertices[ActiveBuffer.vCounter] = lastArg'
       /\ (lastOp' = "rlEnd" /\ ~scen.pushed)
          => BufferedVertices' = BufferedVertices
      ]_vars

\* the second shape after one modelview push under a translation: its point
\* went to the lines as submitted
C31_Witness ==
    /\ lastOp = "rlVertex3f"
    /\ ~useTempBuffer
    /\ stackCounter = 1
    /\ currentMatrixMode = RL_MODELVIEW
    /\ modelview # MatrixIdentity
    /\ currentDepth = 1
    /\ lines.vCounter = 2
    /\ lines.vertices[1] = lastArg
    /\ lines.vertices[0] # lines.vertices[1]

----------------------------------------------------------------------------
(* The bounds of the matrix stack.                                         *)

\* C32: in every state reached by pushes and pops, 0 <= stackCounter <=
\* MATRIX_STACK_SIZE and no matrix was stored at stack[i] with
\* i >= MATRIX_STACK_SIZE
C32_MatrixStackInBounds ==
    /\ stackCounter \in 0 .. MATRIX_STACK_SIZE
    /\ DOMAIN stack \subseteq 0 .. MATRIX_STACK_SIZE - 1

\* a push was refused with the stack one entry short of full, the first
\* matrix saved being a translation
C32_Witness ==
    /\ lastOp = "rlPushMatrix"
    /\ proc = "exited"
    /\ stackCounter = MATRIX_STACK_SIZE - 1
    /\ DOMAIN stack = 0 .. MATRIX_STACK_SIZE - 2
    /\ stack[0] # MatrixIdentity

----------------------------------------------------------------------------
(* The bounds of the staging buffer.                                       *)

\* C33: in every state 0 <= tempBufferCount <= TEMP_VERTEX_BUFFER_SIZE and
\* no point was stored at tempBuffer[i] with i >= TEMP_VERTEX_BUFFER_SIZE
C33_StagingBufferInBounds ==
    /\ tempBufferCount \in 0 .. TEMP_VERTEX_BUFFER_SIZE
    /\ \A f \in memFault : f[1] # "tempBuffer"

----------------------------------------------------------------------------
(* What a flush keeps.                                                     *)

KeepBatch == 1
KeepMaxDepth == 1

\* the observer: the number of points that were staged when the batch was
\* flushed last, since the last rlEnd, and that number as the last rlEnd
\* found it
InitKeep ==
    InitWith([m \in Topologies |-> KeepBatch], [kept |-> 0, replayed |-> 0])

\* the call that led to the state r has flushed the batch
Flushed(r) == \E i \in DOMAIN r.glCalls : r.glCalls[i].cmd = "glUseProgram"

\* the observer after a call that led to the state r
Kept(r) == IF Flushed(r) THEN [scen EXCEPT !.kept = tempBufferCount] ELSE scen

\* the client draws lines
Keep_rlVertex3f ==
    /\ currentDrawMode = RL_LINES
    /\ tempBufferCount < StagedMax
    /\ Call_rlVertex3f({1}, LedgerND)

Keep_rlEnd ==
    /\ currentDepth < KeepMaxDepth
    /\ \E nd \in LedgerND : Step("rlEnd", rlEnd(Cur, nd), [kept |-> 0, replayed |-> scen.kept])

Keep_rlglDraw == LET r == rlglDraw(Cur) IN Step("rlglDraw", r, Kept(r))

Keep_SetBlendMode ==
    \E mode \in {BLEND_ALPHA, BLEND_ADDITIVE} :
        LET r == SetBlendMode(Cur, mode)
        IN  StepArg("SetBlendMode", mode, r, Kept(r))

Keep_SetCustomShader ==
    \E id \in {defaultShaderId, defaultShaderId + 1} :
        LET r == SetCustomShader(Cur, id)
        IN  StepArg("SetCustomShader", id, r, Kept(r))

\* a client that pushes and translates the modelview matrix, stages the
\* points of a line and flushes, by rlglDraw or by a change of blend mode or
\* shader, before it ends the shape
NextKeep ==
    \/ Call_rlMatrixMode({RL_MODELVIEW})
    \/ stackCounter = 0 /\ Call_rlPushMatrix
    \/ CurrentMatrix(Cur) = MatrixIdentity /\ Call_rlTranslatef({1})
    \/ Call_rlBegin({RL_LINES})
    \/ Keep_rlVertex3f
    \/ Keep_rlEnd
    \/ Keep_rlglDraw
    \/ Keep_SetBlendMode
    \/ Keep_SetCustomShader

SpecKeep == InitKeep /\ [][NextKeep]_vars

\* the staging buffer, the matrices and their stack, and the topology
StagingAndMatrices ==
    << useTempBuffer, tempBufferCount, tempBuffer, stackCounter, stack,
       modelview, projection, currentMatrix, currentMatrixMode,
       currentDrawMode >>

\* C34: a rlglDraw leaves the staging flag, count and points, the matrix
\* stack and its counter, the two matrices, currentDrawMode, currentShader
\* and blendMode as they are, and so does, but for the mode or the shader it
\* sets, a SetBlendMode or a SetCustomShader; the rlEnd that follows a flush
\* made with points staged puts every staged point, transformed, into the
\* emptied buffer
C34_FlushKeepsStagedPoints ==
    [][/\ lastOp' = "rlglDraw"
          => /\ StagingAndMatrices' = StagingAndMatrices
             /\ currentShader' = currentShader
             /\ blendMode' = blendMode
       /\ lastOp' = "SetBlendMode"
          => /\ StagingAndMatrices' = StagingAndMatrices
             /\ currentShader' = currentShader
       /\ lastOp' = "SetCustomShader"
          => /\ StagingAndMatrices' = StagingAndMatrices
             /\ blendMode' = blendMode
       /\ (/\ lastOp' = "rlEnd"
           /\ scen.kept > 0
           /\ tempBufferCount <= Capacity(batch, currentDrawMode))
          => /\ tempBufferCount >= scen.kept
             /\ ActiveBuffer'.vCounter = tempBufferCount
             /\ \A i \in 0 .. tempBufferCount - 1 :
                    ActiveBuffer'.vertices[i]
                       = VectorTransform(tempBuffer[i], CurrentMatrix(Cur))
      ]_vars

\* a rlEnd has put into the lines, transformed, two points that were staged
\* when the batch was flushed, the blend mode having changed
C34_Witness ==
    /\ lastOp = "rlEnd"
    /\ scen.replayed = 2
    /\ blendMode = BLEND_ADDITIVE
    /\ lines.vCounter = 2
    /\ currentDepth = 1
    /\ tempBufferCount = 0
    /\ modelview # MatrixIdentity
    /\ lines.vertices[0] # 1

----------------------------------------------------------------------------
(* Pairs of rlPushMatrix and rlPopMatrix.                                  *)

\* the observer: for every push that waits for its pop, the current matrix
\* and stackCounter before the push, the innermost last
InitRound == InitWith([m \in Topologies |-> 1], [saved |-> << >>])

\* the client selects a matrix outside the pairs only
Round_rlMatrixMode ==
    /\ scen.saved = << >>
    /\ Call_rlMatrixMode({RL_MODELVIEW, RL_PROJECTION})

Round_rlPushMatrix ==
    Step("rlPushMatrix", rlPushMatrix(Cur),
         [saved |-> Append(scen.saved,
                           [matrix |-> CurrentMatrix(Cur), counter |-> stackCounter])])

\* the pop that matches the innermost push
Round_rlPopMatrix ==
    /\ scen.saved # << >>
    /\ Step("rlPopMatrix", rlPopMatrix(Cur),
            [saved |-> SubSeq(scen.saved, 1, Len(scen.saved) - 1)])

Round_rlLoadIdentity == Step("rlLoadIdentity", rlLoadIdentity(Cur), scen)

\* a client that modifies, pushes and pops the matrix it has selected
NextRound ==
    \/ Round_rlMatrixMode
    \/ Round_rlPushMatrix
    \/ Round_rlPopMatrix
    \/ Round_rlLoadIdentity
    \/ Call_rlTranslatef(Positions \ {0})

SpecRound == InitRound /\ [][NextRound]_vars

\* C35: a rlPushMatrix called with stackCounter < MATRIX_STACK_SIZE returns
\* with stackCounter one higher, and the rlPopMatrix that matches it, after
\* any modifications of the matrix in the same mode and any pairs nested
\* between them, leaves the current matrix and stackCounter as they were
\* before the push
C35_PushPopRoundTrip ==
    [][/\ (lastOp' = "rlPushMatrix" /\ stackCounter < MATRIX_STACK_SIZE)
          => /\ Running(Cur')
             /\ stackCounter' = stackCounter + 1
       /\ lastOp' = "rlPopMatrix"
          => LET top == scen.saved[Len(scen.saved)]
             IN  /\ CurrentMatrix(Cur') = top.matrix
                 /\ stackCounter' = top.counter
      ]_vars

----------------------------------------------------------------------------
(* A pop with nothing on the stack.                                        *)

\* the observer: whether the last rlPopMatrix found the stack empty
InitPop == InitWith([m \in Topologies |-> 1], [onEmpty |-> FALSE])

Pop_rlPopMatrix ==
    Step("rlPopMatrix", rlPopMatrix(Cur), [onEmpty |-> stackCounter = 0])

\* a client that selects, translates, pushes and pops the matrices in any
\* order
NextPop ==
    \/ Call_rlMatrixMode({RL_MODELVIEW, RL_PROJECTION})
    \/ Call_rlTranslatef(Positions \ {0})
    \/ Call_rlPushMatrix
    \/ Pop_rlPopMatrix

SpecPop == InitPop /\ [][NextPop]_vars

\* C36: stackCounter is never negative, and a rlPopMatrix called with
\* stackCounter = 0 leaves it at 0, sends no command and changes neither the
\* current matrix nor any other variable of the program
C36_PopOnEmptyStackIsIdle ==
    [][/\ stackCounter' >= 0
       /\ (lastOp' = "rlPopMatrix" /\ stackCounter = 0)
          => /\ stackCounter' = 0
             /\ CurrentMatrix(Cur') = CurrentMatrix(Cur)
             /\ Cur' = Cur
             /\ glCalls' = << >>
      ]_vars

\* a pop has found the stack empty and the modelview matrix translated
C36_Witness ==
    /\ lastOp = "rlPopMatrix"
    /\ scen.onEmpty
    /\ stackCounter = 0
    /\ currentMatrix = "modelview"
    /\ modelview # MatrixIdentity

----------------------------------------------------------------------------
(* Quads submitted after rlDisableTexture.                                 *)

DisableQuadsBatch == 1
DisableMaxDepth == 1

\* the observer: the texture passed to the last rlEnableTexture, the default
\* one after rlglInit and after a flush; whether rlDisableTexture has been
\* called since; the quad vertices retained since that call; and, after a
\* rlglDraw, how many of these were in the batch it has flushed
InitDisable ==
    InitWith([m \in Topologies |-> IF m = RL_QUADS THEN DisableQuadsBatch ELSE 1],
             [enabled |-> whiteTexture, off |-> FALSE, after |-> 0, flushed |-> 0])

\* the observer after a call that takes the program to the state r
SinceDisable(r) ==
    [scen EXCEPT !.after = IF scen.off
                           THEN @ + r.quads.vCounter - quads.vCounter
                           ELSE 0,
                 !.flushed = 0]

Disable_rlBegin ==
    Step("rlBegin", rlBegin(Cur, RL_QUADS), [scen EXCEPT !.flushed = 0])

Disable_rlVertex3f ==
    \E nd \in LedgerND :
        LET r == rlVertex3f(Cur, nd, 0) IN Step("rlVertex3f", r, SinceDisable(r))

Disable_rlEnd ==
    /\ currentDepth < DisableMaxDepth
    /\ \E nd \in LedgerND :
          LET r == rlEnd(Cur, nd) IN Step("rlEnd", r, SinceDisable(r))

\* the client binds the active texture at any moment and another texture
\* between two quads
Disable_rlEnableTexture ==
    \E id \in FlushTextures, nd \in LedgerND :
        /\ id = draws[drawsCounter - 1].textureId \/ quads.vCounter % 4 = 0
        /\ StepArg("rlEnableTexture", id, rlEnableTexture(Cur, nd, id),
                   [enabled |-> id, off |-> FALSE, after |-> 0,
                    flushed |-> 0])

Disable_rlDisableTexture ==
    Step("rlDisableTexture", rlDisableTexture(Cur),
         [scen EXCEPT !.off = TRUE, !.flushed = 0])

Disable_rlglDraw ==
    Step("rlglDraw", rlglDraw(Cur),
         [enabled |-> whiteTexture, off |-> FALSE, after |-> 0,
          flushed |-> scen.after])

NextDisable ==
    \/ Disable_rlBegin
    \/ Disable_rlVertex3f
    \/ Disable_rlEnd
    \/ Disable_rlEnableTexture
    \/ Disable_rlDisableTexture
    \/ Disable_rlglDraw

SpecDisable == InitDisable /\ [][NextDisable]_vars

====
